---------------------------- MODULE Spec2Model ----------------------------
(***************************************************************************)
(* Model of the realm daemon (src/vm), its vsock ConnectionDispatcher, the *)
(* per-realm supervisor task, and the guest manager (src/app-manager) with *)
(* the Launcher of the image handler (src/image/handler).                  *)
(*                                                                         *)
(* The specifications share the variables and the operators:               *)
(*   SpecDisp    the ConnectionDispatcher alone, driven by arbitrary       *)
(*               sequences of add_stream / request_stream calls;           *)
(*   Spec        the daemon and one client that manages one realm: all     *)
(*               commands, the supervisor, the vsock listener, the guest;  *)
(*   SpecTwo     the daemon and one client that creates and launches two   *)
(*               realms, whose supervisors and guests share the dispatcher;*)
(*   SpecLive    one realm without applications, with fair scheduling of   *)
(*               the daemon's tasks;                                       *)
(*   SpecGuest   the guest manager from its start to the end of main, with *)
(*               the frames of its stream as input;                        *)
(*   SpecApp     one guest Application and its Launcher under arbitrary    *)
(*               sequences of calls;                                       *)
(*   SpecInstall the image installer under the Application that runs it;   *)
(*   SpecDisk    realms and applications created again over the same disk  *)
(*               files;                                                    *)
(*   SpecFrame   serde_write and serde_read on one stream;                 *)
(*   SpecSession one control-socket client, line by line;                  *)
(*   SpecCancel  the daemon's tasks from cancellation to the end of main;  *)
(*   SpecShare   two control-socket clients over one workdir;              *)
(*   SpecCrypt   the dm-crypt target line of CryptDevice::load.            *)
(***************************************************************************)
EXTENDS Integers, Sequences, FiniteSets, TLC

\* ------------------------------------------------------------------ bounds
\* calls of each kind, per CID, in the dispatcher harness
MaxCalls == 2

\* guest CIDs used as inputs
CIDs == {3, 4}

\* "no sender", "no receiver", "no provisioning source"
None == 0

\* "no stream"; a stream is named by a tuple
NoStream == <<>>

VARIABLES
    \* ConnectionDispatcher (src/vm/src/vsock.rs)
    available,   \* CID -> parked stream id, or None
    requests,    \* CID -> parked one-shot sender (channel id), or None
    oneshot,     \* the one-shot channels created by request_stream
    \* dispatcher harness (SpecDisp only)
    nReq,        \* CID -> number of request_stream calls issued
    added,       \* CID -> the streams passed to add_stream, in call order
    dres,        \* result of the last dispatcher call
    \* daemon (src/vm)
    cancel,      \* DaemonContext::cancel has been cancelled
    vsockl,      \* state of the listen_vsock task
    sess,        \* control-socket sessions (ClientHandler::run)
    realms,      \* (session, realm id) -> Realm, the sessions' realm maps
    disks,       \* the disk files under the daemon's workdir
    sup,         \* (session, realm id) -> the realm's supervisor task
    child,       \* (session, realm id) -> the realm's hypervisor process
    spawned,     \* (session, realm id) -> hypervisors and tasks ever spawned
    streams,     \* the vsock connections accepted so far, and their guests
    \* guest manager (src/app-manager), on its own (SpecGuest, SpecApp)
    mgr,         \* the AppManager: main's position, its applications, its stream
    obj,         \* one guest Application driven call by call (SpecApp only)
    ret,         \* the last call on obj and its result (SpecApp only)
    \* image installer (src/image/handler), with obj as its Application
    inst,        \* the Installer's run, the image it is given and its workdir
    \* frames (serde_read, serde_write), on their own (SpecFrame only)
    wire,        \* one stream: the frames in flight and the last call on it
    \* one control-socket client and its ClientHandler::run (SpecSession only)
    cli,         \* the socket's bytes in flight, run's position, what it wrote;
                 \* and the positions of listen_unixsocket and of main (SpecCancel)
    \* device-mapper (src/app-manager/src/dmcrypt.rs), on its own (SpecCrypt only)
    dm           \* one crypt device: its table, device path and key, and the
                 \* target line load has built

dispVars == <<available, requests, oneshot>>
harnessVars == <<nReq, added, dres>>
hostVars == <<cancel, vsockl, sess, realms, disks, sup, child, spawned, streams>>
guestVars == <<mgr, obj, ret, inst, wire, cli, dm>>
vars == <<available, requests, oneshot, nReq, added, dres,
          cancel, vsockl, sess, realms, disks, sup, child, spawned, streams,
          mgr, obj, ret, inst, wire, cli, dm>>

\* ------------------------------------------------- ConnectionDispatcher
\* The dispatcher as a value: the two maps, the channels its senders belong
\* to, and the outcome of the call being made on it.
Disp ==
    [available |-> available, requests |-> requests, oneshot |-> oneshot,
     res |-> "Ok", rxid |-> None, dropped |-> NoStream]

\* ConnectionDispatcher::new
DispNew ==
    [available |-> [c \in CIDs |-> NoStream], requests |-> [c \in CIDs |-> None]]

\* oneshot::channel(): a channel whose receiver is alive and that holds nothing
OneshotChannel(cid) == [cid |-> cid, rx |-> TRUE, sent |-> <<>>]

\* mutant of resolve: the waiter is left in the requests map
resolve_keepsRequest(d, cid) ==
    IF d.available[cid] # NoStream /\ d.requests[cid] # None
    THEN LET stream == d.available[cid]
             tx == d.requests[cid]
             d1 == [d EXCEPT !.available[cid] = NoStream]
         IN IF d.oneshot[tx].rx
            THEN [d1 EXCEPT !.oneshot[tx].sent = Append(@, stream)]
            ELSE [d1 EXCEPT !.res = "SendError", !.dropped = stream]
    ELSE d

\* ConnectionDispatcher::resolve: when both maps hold the CID, both entries are
\* removed and the stream is sent; tx.send fails when the receiver was dropped,
\* and the stream handed back by the failed send is dropped.
resolve(d, cid) ==
    IF d.available[cid] # NoStream /\ d.requests[cid] # None
    THEN LET stream == d.available[cid]
             tx == d.requests[cid]
             d1 == [d EXCEPT !.available[cid] = NoStream, !.requests[cid] = None]
         IN IF d.oneshot[tx].rx
            THEN [d1 EXCEPT !.oneshot[tx].sent = Append(@, stream)]
            ELSE [d1 EXCEPT !.res = "SendError", !.dropped = stream]
    ELSE d

\* mutant of add_stream: the stream is stored but resolve is not called
add_stream_noResolve(d, cid, stream) ==
    IF d.available[cid] # NoStream
    THEN [d EXCEPT !.res = "ConnectionPresent", !.dropped = stream]
    ELSE [d EXCEPT !.available[cid] = stream]

\* mutant of add_stream: no check for a stream that is already parked
add_stream_noCheck(d, cid, stream) ==
    resolve([d EXCEPT !.available[cid] = stream], cid)

\* ConnectionDispatcher::add_stream
add_stream(d, cid, stream) ==
    IF d.available[cid] # NoStream
    THEN [d EXCEPT !.res = "ConnectionPresent", !.dropped = stream]
    ELSE resolve([d EXCEPT !.available[cid] = stream], cid)

\* mutant of request_stream: no check for a waiter that is already parked
request_stream_noCheck(d, cid) ==
    LET k == Len(d.oneshot) + 1
    IN resolve([d EXCEPT !.oneshot = Append(@, OneshotChannel(cid)),
                         !.requests[cid] = k,
                         !.rxid = k], cid)

\* ConnectionDispatcher::request_stream; rxid is the returned Receiver
request_stream(d, cid) ==
    IF d.requests[cid] # None
    THEN [d EXCEPT !.res = "RequestPresent"]
    ELSE LET k == Len(d.oneshot) + 1
         IN resolve([d EXCEPT !.oneshot = Append(@, OneshotChannel(cid)),
                              !.requests[cid] = k,
                              !.rxid = k], cid)

\* ------------------------------------------------------------ daemon: data
\* control-socket clients
Sessions == {1}

\* inputs of the commands
RealmIds == {"r1"}
TwoRealmIds == {"r1", "r2"}
AppIds == {"a1"}
SizesMB == {1}
ProvisionFroms == {None}

\* <workdir>/<realm id>/<app id>/{main.raw, secure.raw}: DaemonContext::workdir
\* is shared by all sessions, so the session is not part of the path
DiskPath(rid, aid, file) == <<rid, aid, file>>

\* size_mb * 1024 * 1024
SizeBytes(size_mb) == size_mb * 1024 * 1024

\* mutant of QEMUDisk_new: an existing file is not looked at but created anew
QEMUDisk_new_recreate(fs, path, size_mb) ==
    LET guid == Cardinality(DOMAIN fs) + 1
        writes == IF path \in DOMAIN fs THEN fs[path].writes + 1 ELSE 1
    IN [fs |-> (path :> [size |-> SizeBytes(size_mb), part_guid |-> guid,
                         writes |-> writes]) @@ fs,
        ok |-> TRUE, err |-> "", part_uuid |-> guid]

\* mutant of QEMUDisk_new: an existing file of another size is resized
QEMUDisk_new_resize(fs, path, size_mb) ==
    IF path \in DOMAIN fs
    THEN [fs |-> [fs EXCEPT ![path].size = SizeBytes(size_mb), ![path].writes = @ + 1],
          ok |-> TRUE, err |-> "", part_uuid |-> fs[path].part_guid]
    ELSE LET guid == Cardinality(DOMAIN fs) + 1
         IN [fs |-> (path :> [size |-> SizeBytes(size_mb), part_guid |-> guid,
                              writes |-> 1]) @@ fs,
             ok |-> TRUE, err |-> "", part_uuid |-> guid]

\* QEMUDisk::new on the file system fs: an existing file must have the requested
\* size and is reopened; a missing one is created with a fresh partition GUID.
\* Yields the file system afterwards and the QEMUDisk (or the error).
QEMUDisk_new(fs, path, size_mb) ==
    IF path \in DOMAIN fs
    THEN IF fs[path].size # SizeBytes(size_mb)
         THEN [fs |-> fs, ok |-> FALSE, err |-> "ExistingDiskSizeMismatch",
               part_uuid |-> None]
         ELSE [fs |-> fs, ok |-> TRUE, err |-> "",
               part_uuid |-> fs[path].part_guid]
    ELSE LET guid == Cardinality(DOMAIN fs) + 1
         IN [fs |-> (path :> [size |-> SizeBytes(size_mb), part_guid |-> guid,
                              writes |-> 1]) @@ fs,
             ok |-> TRUE, err |-> "", part_uuid |-> guid]

\* Application::new: both disks are created by blocking tasks that run whatever
\* the other's outcome; the main disk's error is reported first.
Application_new(fs, rid, aid, config) ==
    LET m == QEMUDisk_new(fs, DiskPath(rid, aid, "main.raw"), config.main_storage_size_mb)
        s == QEMUDisk_new(m.fs, DiskPath(rid, aid, "secure.raw"), config.secure_storage_size_mb)
    IN [fs |-> s.fs,
        ok |-> m.ok /\ s.ok,
        err |-> IF ~m.ok THEN m.err ELSE s.err,
        app |-> [config |-> config,
                 main_storage |-> m.part_uuid,
                 secure_storage |-> s.part_uuid]]

\* mutant of application_info: the main partition's GUID is reported for both
application_info_sameUuid(app) ==
    [main_partition_uuid |-> app.main_storage,
     secure_partition_uuid |-> app.main_storage,
     provision_info |-> app.config.provision_from]

\* Application::application_info
application_info(app) ==
    [main_partition_uuid |-> app.main_storage,
     secure_partition_uuid |-> app.secure_storage,
     provision_info |-> app.config.provision_from]

\* Realm::realm_info
realm_info(realm) ==
    [id \in DOMAIN realm.apps |-> application_info(realm.apps[id])]

\* Realm::new
Realm_new(config) == [config |-> config, apps |-> <<>>, txrx |-> FALSE]

\* frames on a vsock stream (length-delimited JSON documents)
RealmInfoFrame(info) == [t |-> "RealmInfo", body |-> info]
\* protocol::Command: its variant and the application id it carries, if any
Command_Shutdown == [cmd |-> "Shutdown", id |-> ""]
CommandFrame(cmd) == [t |-> "Command", body |-> cmd]
ResponseFrame(r) == [t |-> "Response", body |-> r]

\* a connection accepted by the vsock listener: the host end, the two directions
\* of the byte stream as frame queues, and the guest manager at the other end
NewStream(cid) ==
    [cid |-> cid, hopen |-> TRUE, h2g |-> <<>>, g2h |-> <<>>,
     gpc |-> "read_provision_info", gread |-> <<>>, pending |-> FALSE]

\* every frame the host has written on the stream st, in order: those the guest
\* has read, then those in flight
Written(st) == [j \in 1..Len(st.gread) |-> st.gread[j].frame] \o st.h2g

HostWrote(i) == Written(streams[i])

\* the supervisor task spawned by Realm::launch: its position in handle_realm,
\* its locals, and the two mpsc channels (depth 1) shared with the Realm
NewSupervisor(info, cid) ==
    [pc |-> "request_stream", cid |-> cid, info |-> info, rxid |-> None,
     stream |-> NoStream, stdout_open |-> TRUE, stderr_open |-> TRUE,
     req |-> "", resp |-> "", err |-> "", timedout |-> FALSE]

SupEnded(k) == k \in DOMAIN sup /\ sup[k].pc \in {"done", "failed"}

HostInit ==
    /\ cancel = FALSE
    /\ vsockl = "listening"
    /\ sess = [s \in Sessions |-> [pc |-> "none", on |-> <<>>, cmd |-> "", result |-> ""]]
    /\ realms = <<>>
    /\ disks = <<>>
    /\ sup = <<>>
    /\ child = <<>>
    /\ spawned = <<>>
    /\ streams = <<>>

\* ------------------------------------------------ control-socket sessions
\* handle_user_line writes the result of the command cmd on realm k, and a new
\* prompt
Reply(s, cmd, k, result) ==
    sess' = [sess EXCEPT ![s] = [pc |-> "idle", on |-> k, cmd |-> cmd, result |-> result]]

\* listen_unixsocket accepts a client and spawns ClientHandler::run for it
ClientAccept(s) ==
    /\ ~cancel
    /\ sess[s].pc = "none"
    /\ \A s0 \in Sessions : s0 < s => sess[s0].pc # "none"
    /\ Reply(s, "", <<>>, "")
    /\ UNCHANGED <<dispVars, harnessVars, guestVars, cancel, vsockl, realms, disks, sup, child,
                   spawned, streams>>

\* create-realm: ClientHandler::handle_create_realm
CreateRealm(s, id, vsock_cid) ==
    /\ sess[s].pc = "idle"
    /\ IF <<s, id>> \in DOMAIN realms
       THEN /\ Reply(s, "create-realm", <<s, id>>, "RealmExists")
            /\ UNCHANGED realms
       ELSE /\ realms' = (<<s, id>> :> Realm_new([vsock_cid |-> vsock_cid])) @@ realms
            /\ Reply(s, "create-realm", <<s, id>>, "RealmCreated")
    /\ UNCHANGED <<dispVars, harnessVars, guestVars, cancel, vsockl, disks, sup, child, spawned,
                   streams>>

\* mutant of CreateApplication: an id of the realm is created again
CreateApplication_noCheck(s, id, realm_id, config) ==
    LET k == <<s, realm_id>>
    IN /\ sess[s].pc = "idle"
       /\ IF k \notin DOMAIN realms
          THEN /\ Reply(s, "create-application", k, "RealmDoesNotExist")
               /\ UNCHANGED <<realms, disks>>
          ELSE LET a == Application_new(disks, realm_id, id, config)
               IN /\ disks' = a.fs
                  /\ IF a.ok
                     THEN /\ realms' = [realms EXCEPT
                                           ![k].apps = (id :> a.app) @@ @]
                          /\ Reply(s, "create-application", k, "ApplicationCreated")
                     ELSE /\ UNCHANGED realms
                          /\ Reply(s, "create-application", k, a.err)
       /\ UNCHANGED <<dispVars, harnessVars, guestVars, cancel, vsockl, sup, child, spawned, streams>>

\* create-application: ClientHandler::handle_create_application and
\* Realm::create_application
CreateApplication(s, id, realm_id, config) ==
    LET k == <<s, realm_id>>
    IN /\ sess[s].pc = "idle"
       /\ IF k \notin DOMAIN realms
          THEN /\ Reply(s, "create-application", k, "RealmDoesNotExist")
               /\ UNCHANGED <<realms, disks>>
          ELSE IF id \in DOMAIN realms[k].apps
          THEN /\ Reply(s, "create-application", k, "AppExists")
               /\ UNCHANGED <<realms, disks>>
          ELSE LET a == Application_new(disks, realm_id, id, config)
               IN /\ disks' = a.fs
                  /\ IF a.ok
                     THEN /\ realms' = [realms EXCEPT ![k].apps = (id :> a.app) @@ @]
                          /\ Reply(s, "create-application", k, "ApplicationCreated")
                     ELSE /\ UNCHANGED realms
                          /\ Reply(s, "create-application", k, a.err)
       /\ UNCHANGED <<dispVars, harnessVars, guestVars, cancel, vsockl, sup, child, spawned, streams>>

\* mutant of Realm_launch_guard: a launched realm may be launched again
Realm_launch_guard_none(realm) == FALSE

\* Realm::launch, its first statement: txrx.is_some()
Realm_launch_guard(realm) == realm.txrx

\* launch-realm: ClientHandler::handle_launch_realm and Realm::launch. The
\* hypervisor is spawned (which the system may refuse), the channel endpoints
\* are stored and the supervisor task is spawned with the RealmInfo of now.
LaunchRealm(s, id) ==
    LET k == <<s, id>>
    IN /\ sess[s].pc = "idle"
       /\ IF k \notin DOMAIN realms
          THEN /\ Reply(s, "launch-realm", k, "RealmDoesNotExist")
               /\ UNCHANGED <<realms, sup, child, spawned>>
          ELSE IF Realm_launch_guard(realms[k])
          THEN /\ Reply(s, "launch-realm", k, "RealmAlreadyRunning")
               /\ UNCHANGED <<realms, sup, child, spawned>>
          ELSE \/ /\ Reply(s, "launch-realm", k, "RealmLaunchingError")
                  /\ UNCHANGED <<realms, sup, child, spawned>>
               \/ /\ child' = (k :> "running") @@ child
                  /\ realms' = [realms EXCEPT ![k].txrx = TRUE]
                  /\ sup' = (k :> NewSupervisor(realm_info(realms[k]),
                                                realms[k].config.vsock_cid)) @@ sup
                  /\ spawned' = (k :> IF k \in DOMAIN spawned
                                      THEN spawned[k] + 1 ELSE 1) @@ spawned
                  /\ Reply(s, "launch-realm", k, "RealmLaunched")
       /\ UNCHANGED <<dispVars, harnessVars, guestVars, cancel, vsockl, disks, streams>>

\* the Requests of the commands shutdown, start-app, terminate-app, kill-app
Requests == {"Shutdown", "StartApp", "TerminateApp", "KillApp"}

\* shutdown, start-app, terminate-app, kill-app: the handlers' first half,
\* Realm::send_request up to the send. The session then awaits the response.
SendRequest(s, id, req) ==
    LET k == <<s, id>>
    IN /\ sess[s].pc = "idle"
       /\ IF k \notin DOMAIN realms
          THEN /\ Reply(s, req, k, "RealmDoesNotExist")
               /\ UNCHANGED sup
          ELSE IF ~realms[k].txrx
          THEN /\ Reply(s, req, k, "RealmIsNotRunning")
               /\ UNCHANGED sup
          ELSE IF SupEnded(k)
          THEN /\ Reply(s, req, k, "RequestChannelError")
               /\ UNCHANGED sup
          ELSE /\ sup' = [sup EXCEPT ![k].req = req]
               /\ sess' = [sess EXCEPT ![s] = [pc |-> "wait", on |-> k, cmd |-> req,
                                               result |-> ""]]
       /\ UNCHANGED <<dispVars, harnessVars, guestVars, cancel, vsockl, realms, disks, child,
                      spawned, streams>>

\* what the handler of command cmd returns for the supervisor's Response
CommandResult(cmd, resp) ==
    IF resp = "RealmNotConnected" THEN "RealmIsNotRunning"
    ELSE IF cmd = "Shutdown" THEN "RealmExited"
    ELSE IF cmd = "StartApp" THEN "ApplicationStarted"
    ELSE "ApplicationExited"

\* Realm::send_request, second half: rx.recv() yields the supervisor's response,
\* or None once the supervisor has ended and left nothing in the channel
RecvResponse(s) ==
    LET k == sess[s].on
    IN /\ sess[s].pc = "wait"
       /\ IF sup[k].resp # ""
          THEN /\ sup' = [sup EXCEPT ![k].resp = ""]
               /\ Reply(s, sess[s].cmd, k, CommandResult(sess[s].cmd, sup[k].resp))
          ELSE /\ SupEnded(k)
               /\ UNCHANGED sup
               /\ Reply(s, sess[s].cmd, k, "ChannelClosed")
       /\ UNCHANGED <<dispVars, harnessVars, guestVars, cancel, vsockl, realms, disks, child,
                      spawned, streams>>

\* ClientHandler::run leaves its loop: an empty line, or the cancel token
SessionLeave(s) ==
    /\ sess[s].pc = "idle"
    /\ sess' = [sess EXCEPT ![s].pc = "joining"]
    /\ UNCHANGED <<dispVars, harnessVars, guestVars, cancel, vsockl, realms, disks, sup, child,
                   spawned, streams>>

\* ClientHandler::run after the loop: every supervisor task has been joined
SessionJoined(s) ==
    /\ sess[s].pc = "joining"
    /\ \A k \in DOMAIN sup : k[1] = s => SupEnded(k)
    /\ sess' = [sess EXCEPT ![s].pc = "done"]
    /\ UNCHANGED <<dispVars, harnessVars, guestVars, cancel, vsockl, realms, disks, sup, child,
                   spawned, streams>>

\* ------------------------------------------------ realm supervisor task
\* the streams task k owns: the one it retained, or the one still inside its
\* one-shot channel
HeldStreams(k) ==
    IF sup[k].stream # NoStream THEN {sup[k].stream}
    ELSE IF sup[k].rxid # None
    THEN {oneshot[sup[k].rxid].sent[j] : j \in 1..Len(oneshot[sup[k].rxid].sent)}
    ELSE {}

\* handle_realm returns: its locals are dropped, that is the one-shot Receiver,
\* the stream, and both channel endpoints. (The Child is dropped too, which
\* neither kills nor reaps the hypervisor.)
SupReturn(k, pc, err) ==
    /\ sup' = [sup EXCEPT ![k].pc = pc, ![k].err = err, ![k].stream = NoStream]
    /\ oneshot' = IF sup[k].rxid = None THEN oneshot
                  ELSE [oneshot EXCEPT ![sup[k].rxid].rx = FALSE]
    /\ streams' = [i \in DOMAIN streams |->
                     IF i \in HeldStreams(k)
                     THEN [streams[i] EXCEPT !.hopen = FALSE] ELSE streams[i]]

\* handle_realm, first statement: request_stream under the dispatcher mutex;
\* an error ends the task
SupRequestStream(k) ==
    /\ sup[k].pc = "request_stream"
    /\ LET d == request_stream(Disp, sup[k].cid)
       IN /\ available' = d.available
          /\ requests' = d.requests
          /\ oneshot' = d.oneshot
          /\ IF d.res = "Ok"
             THEN sup' = [sup EXCEPT ![k].pc = "select", ![k].rxid = d.rxid]
             ELSE sup' = [sup EXCEPT ![k].pc = "failed", ![k].err = "VsockStreamRecv"]
    /\ UNCHANGED <<harnessVars, guestVars, cancel, vsockl, sess, realms, disks, child, spawned,
                   streams>>

\* mutant of SupPushRealmInfo: the stream is retained but RealmInfo is not written
SupPushRealmInfo_skip(k, socket) ==
    /\ sup' = [sup EXCEPT ![k].stream = socket]
    /\ UNCHANGED <<oneshot, streams>>

\* select arm "stream_request, if stream.is_none()", body: RealmInfo is written
\* to the socket, which is then retained; a failed write ends the task
SupPushRealmInfo(k, socket) ==
    \/ /\ streams' = [streams EXCEPT ![socket].h2g = Append(@, RealmInfoFrame(sup[k].info))]
       /\ sup' = [sup EXCEPT ![k].stream = socket]
       /\ UNCHANGED oneshot
    \/ /\ streams[socket].gpc = "exited"
       /\ SupReturn(k, "failed", "SerdeWriteError")

\* select arm "stream_request, if stream.is_none()"
SupStreamArrived(k) ==
    /\ sup[k].pc = "select"
    /\ sup[k].stream = NoStream
    /\ oneshot[sup[k].rxid].sent # <<>>
    /\ SupPushRealmInfo(k, oneshot[sup[k].rxid].sent[1])
    /\ UNCHANGED <<available, requests, harnessVars, guestVars, cancel, vsockl, sess, realms, disks,
                   child, spawned>>

\* select arm "timeout": 90 s after the task started; the loop is left only
\* when no stream was retained
SupTimeout(k) ==
    /\ sup[k].pc = "select"
    /\ IF sup[k].stream = NoStream
       THEN sup' = [sup EXCEPT ![k].pc = "reap", ![k].timedout = TRUE]
       ELSE UNCHANGED sup
    /\ UNCHANGED <<dispVars, harnessVars, guestVars, cancel, vsockl, sess, realms, disks, child,
                   spawned, streams>>

\* select arm "process.wait()": the hypervisor has exited
SupChildExited(k) ==
    /\ sup[k].pc = "select"
    /\ child[k] = "exited"
    /\ sup' = [sup EXCEPT ![k].pc = "reap"]
    /\ UNCHANGED <<dispVars, harnessVars, guestVars, cancel, vsockl, sess, realms, disks, child,
                   spawned, streams>>

\* select arms "stdout.read_line" and "stderr.read_line": a line is logged; end
\* of file (the hypervisor has exited) closes the arm; a read error (a line that
\* is not UTF-8, for one) ends the task
SupReadLine(k, pipe) ==
    /\ sup[k].pc = "select"
    /\ IF pipe = "stdout" THEN sup[k].stdout_open ELSE sup[k].stderr_open
    /\ \/ /\ child[k] = "running"
          /\ UNCHANGED <<sup, oneshot, streams>>
       \/ /\ child[k] = "exited"
          /\ sup' = IF pipe = "stdout" THEN [sup EXCEPT ![k].stdout_open = FALSE]
                                        ELSE [sup EXCEPT ![k].stderr_open = FALSE]
          /\ UNCHANGED <<oneshot, streams>>
       \/ /\ child[k] = "running"
          /\ SupReturn(k, "failed", "RealmIOReadError")
    /\ UNCHANGED <<available, requests, harnessVars, guestVars, cancel, vsockl, sess, realms, disks,
                   child, spawned>>

\* mutant of SupShutdown: the guest is not asked, Ok is replied at once
SupShutdown_noForward(k) ==
    /\ sup' = [sup EXCEPT ![k].req = "", ![k].resp = "Ok"]
    /\ UNCHANGED <<oneshot, streams>>

\* select arm "rx.recv()", Request::Shutdown: with a stream, Command::Shutdown is
\* written and the task goes on to read the Response; without one,
\* RealmNotConnected is replied
SupShutdown(k) ==
    IF sup[k].stream # NoStream
    THEN \/ /\ streams' = [streams EXCEPT ![sup[k].stream].h2g =
                                              Append(@, CommandFrame(Command_Shutdown))]
            /\ sup' = [sup EXCEPT ![k].req = "", ![k].pc = "read_response"]
            /\ UNCHANGED oneshot
         \/ /\ streams[sup[k].stream].gpc = "exited"
            /\ SupReturn(k, "failed", "SerdeWriteError")
    ELSE /\ sup' = [sup EXCEPT ![k].req = "", ![k].resp = "RealmNotConnected"]
         /\ UNCHANGED <<oneshot, streams>>

\* select arm "rx.recv()": Shutdown as above, every other Request is answered
\* Ok without a word to the guest
SupRecvRequest(k) ==
    /\ sup[k].pc = "select"
    /\ sup[k].req # ""
    /\ IF sup[k].req = "Shutdown"
       THEN SupShutdown(k)
       ELSE /\ sup' = [sup EXCEPT ![k].req = "", ![k].resp = "Ok"]
            /\ UNCHANGED <<oneshot, streams>>
    /\ UNCHANGED <<available, requests, harnessVars, guestVars, cancel, vsockl, sess, realms, disks,
                   child, spawned>>

\* Request::Shutdown, second half: one Response frame is read from the guest,
\* whatever it is, and Response::Ok is replied; a closed stream ends the task
SupReadResponse(k) ==
    /\ sup[k].pc = "read_response"
    /\ LET i == sup[k].stream
       IN IF streams[i].g2h # <<>>
          THEN /\ streams' = [streams EXCEPT ![i].g2h = Tail(@)]
               /\ sup' = [sup EXCEPT ![k].pc = "select", ![k].resp = "Ok"]
               /\ UNCHANGED oneshot
          ELSE /\ streams[i].gpc = "exited"
               /\ SupReturn(k, "failed", "StreamIsClosed")
    /\ UNCHANGED <<available, requests, harnessVars, guestVars, cancel, vsockl, sess, realms, disks,
                   child, spawned>>

\* after the loop: process.wait() once more, then the task returns Ok
SupReap(k) ==
    /\ sup[k].pc = "reap"
    /\ child[k] = "exited"
    /\ SupReturn(k, "done", "")
    /\ UNCHANGED <<available, requests, harnessVars, guestVars, cancel, vsockl, sess, realms, disks,
                   child, spawned>>

\* the hypervisor process exits (guest power-off, crash, kill), and its guest
\* with it
ChildExit(k) ==
    /\ child[k] = "running"
    /\ child' = [child EXCEPT ![k] = "exited"]
    /\ streams' = IF k \in DOMAIN streams
                  THEN [streams EXCEPT ![k].gpc = "exited"] ELSE streams
    /\ UNCHANGED <<dispVars, harnessVars, guestVars, cancel, vsockl, sess, realms, disks, sup,
                   spawned>>

\* ------------------------------------------------ vsock listener and main
\* listen_vsock, arm "listener.accept()": the guest manager of hypervisor k
\* (AppManager::setup) connects, from the CID the hypervisor was given, and the
\* listener task holds the accepted stream while it waits for the dispatcher
\* mutex. The stream is named after its guest.
VsockAccept(k) ==
    /\ vsockl = "listening"
    /\ child[k] = "running"
    /\ k \notin DOMAIN streams
    /\ streams' = (k :> [NewStream(sup[k].cid) EXCEPT !.pending = TRUE]) @@ streams
    /\ vsockl' = "add_stream"
    /\ UNCHANGED <<dispVars, harnessVars, guestVars, cancel, sess, realms, disks, sup, child,
                   spawned>>

\* listen_vsock, arm "listener.accept()", once the mutex is taken: the stream
\* goes to add_stream, and an error of add_stream ends the listener task with
\* that error
VsockAddStream(k) ==
    /\ vsockl = "add_stream"
    /\ k \in DOMAIN streams
    /\ streams[k].pending
    /\ LET d == add_stream(Disp, streams[k].cid, k)
       IN /\ available' = d.available
          /\ requests' = d.requests
          /\ oneshot' = d.oneshot
          /\ streams' = [streams EXCEPT ![k].pending = FALSE,
                                         ![k].hopen = @ /\ (d.dropped # k)]
          /\ vsockl' = IF d.res = "Ok" THEN "listening" ELSE d.res
    /\ UNCHANGED <<harnessVars, guestVars, cancel, sess, realms, disks, sup, child, spawned>>

\* listen_vsock, arm "cancel.cancelled()"
VsockCancelled ==
    /\ cancel
    /\ vsockl = "listening"
    /\ vsockl' = "stopped"
    /\ UNCHANGED <<dispVars, harnessVars, guestVars, cancel, sess, realms, disks, sup, child,
                   spawned, streams>>

\* main's select: SIGINT, SIGTERM, or the end of the vsock listener task, each
\* followed by Daemon::shutdown
MainShutdown ==
    /\ ~cancel
    /\ cancel' = TRUE
    /\ UNCHANGED <<dispVars, harnessVars, guestVars, vsockl, sess, realms, disks, sup, child,
                   spawned, streams>>

\* ------------------------------------------------ guest manager
\* mutant of GuestReadProvisionInfo: the first frame is not read before the setup
GuestReadProvisionInfo_skip(i) ==
    /\ streams' = [streams EXCEPT ![i].gpc = "setup"]

\* AppManager::read_provision_info: the first frame is read and parsed as
\* RealmInfo; a frame that is none, or a closed stream, ends the manager
GuestReadProvisionInfo(i) ==
    IF streams[i].h2g # <<>>
    THEN LET f == Head(streams[i].h2g)
         IN streams' = [streams EXCEPT
                ![i].h2g = Tail(@),
                ![i].gread = Append(@, [as |-> "RealmInfo", frame |-> f]),
                ![i].gpc = IF f.t = "RealmInfo" THEN "setup" ELSE "exited"]
    ELSE /\ ~streams[i].hopen
         /\ streams' = [streams EXCEPT ![i].gpc = "exited"]

\* app-manager main: after AppManager::setup has connected, the provision
\* info is read
GuestStart(i) ==
    /\ streams[i].gpc = "read_provision_info"
    /\ GuestReadProvisionInfo(i)
    /\ UNCHANGED <<dispVars, harnessVars, guestVars, cancel, vsockl, sess, realms, disks, sup, child,
                   spawned>>

\* app-manager main: the decrypt, provision and mount steps, which all succeed
\* or of which one fails and ends the manager
GuestSetup(i) ==
    /\ streams[i].gpc = "setup"
    /\ \E ok \in BOOLEAN :
          streams' = [streams EXCEPT ![i].gpc = IF ok THEN "event_loop" ELSE "exited"]
    /\ UNCHANGED <<dispVars, harnessVars, guestVars, cancel, vsockl, sess, realms, disks, sup, child,
                   spawned>>

\* AppManager::event_loop, one round: a Command is read, handled and answered;
\* after the answer to Shutdown the loop is about to break. A frame that is no
\* Command, or a closed stream, ends the manager with an error.
GuestEventLoop(i) ==
    /\ streams[i].gpc = "event_loop"
    /\ IF streams[i].h2g # <<>>
       THEN LET f == Head(streams[i].h2g)
            IN streams' = [streams EXCEPT
                   ![i].h2g = Tail(@),
                   ![i].gread = Append(@, [as |-> "Command", frame |-> f]),
                   ![i].g2h = IF f.t = "Command" THEN Append(@, ResponseFrame("Ok")) ELSE @,
                   ![i].gpc = IF f.t # "Command" THEN "exited"
                              ELSE IF f.body = Command_Shutdown THEN "break"
                              ELSE "event_loop"]
       ELSE /\ ~streams[i].hopen
            /\ streams' = [streams EXCEPT ![i].gpc = "exited"]
    /\ UNCHANGED <<dispVars, harnessVars, guestVars, cancel, vsockl, sess, realms, disks, sup, child,
                   spawned>>

\* AppManager::event_loop, "break Ok(())" after Shutdown: main returns, the
\* manager's process ends and its end of the stream is closed
GuestBreak(i) ==
    /\ streams[i].gpc = "break"
    /\ streams' = [streams EXCEPT ![i].gpc = "exited"]
    /\ UNCHANGED <<dispVars, harnessVars, guestVars, cancel, vsockl, sess, realms, disks, sup, child,
                   spawned>>

\* ------------------------------------------------ the daemon
Configs ==
    [main_storage_size_mb : SizesMB, secure_storage_size_mb : SizesMB,
     provision_from : ProvisionFroms]

Next ==
    \/ \E s \in Sessions : ClientAccept(s)
    \/ \E s \in Sessions, id \in RealmIds, c \in CIDs : CreateRealm(s, id, c)
    \/ \E s \in Sessions, id \in AppIds, rid \in RealmIds, cfg \in Configs :
          CreateApplication(s, id, rid, cfg)
    \/ \E s \in Sessions, id \in RealmIds : LaunchRealm(s, id)
    \/ \E s \in Sessions, id \in RealmIds, req \in Requests : SendRequest(s, id, req)
    \/ \E s \in Sessions : RecvResponse(s)
    \/ \E s \in Sessions : SessionLeave(s)
    \/ \E s \in Sessions : SessionJoined(s)
    \/ \E k \in DOMAIN sup : SupRequestStream(k)
    \/ \E k \in DOMAIN sup : SupStreamArrived(k)
    \/ \E k \in DOMAIN sup : SupTimeout(k)
    \/ \E k \in DOMAIN sup : SupChildExited(k)
    \/ \E k \in DOMAIN sup, pipe \in {"stdout", "stderr"} : SupReadLine(k, pipe)
    \/ \E k \in DOMAIN sup : SupRecvRequest(k)
    \/ \E k \in DOMAIN sup : SupReadResponse(k)
    \/ \E k \in DOMAIN sup : SupReap(k)
    \/ \E k \in DOMAIN child : ChildExit(k)
    \/ \E k \in DOMAIN child : VsockAccept(k)
    \/ \E k \in DOMAIN streams : VsockAddStream(k)
    \/ VsockCancelled
    \/ MainShutdown
    \/ \E i \in DOMAIN streams : GuestStart(i)
    \/ \E i \in DOMAIN streams : GuestSetup(i)
    \/ \E i \in DOMAIN streams : GuestEventLoop(i)
    \/ \E i \in DOMAIN streams : GuestBreak(i)

\* Request::StartApp, TerminateApp, KillApp and the Commands of the same names
AppRequests == {"StartApp", "TerminateApp", "KillApp"}

\* =========================================================== guest manager
\* The guest's app-manager on its own: the Launcher of the image handler, the
\* guest Application, and AppManager with main. An operation of the Launcher
\* or the Application is the set of its outcomes [l or app, res]: what the
\* kernel, the registry and the image decide is open.

\* ------------------------------------------------ Launcher (docker)
\* successful launches of one Launcher
MaxLaunch == 2

\* LaunchConfig of the image's config file: entrypoint (Option<Vec<String>>)
\* and cmd (Vec<String>)
NoEntrypoint == [some |-> FALSE, v |-> <<>>]
Entrypoint(v) == [some |-> TRUE, v |-> v]

LaunchConfigs ==
    {[entrypoint |-> e, cmd |-> c] :
        e \in {NoEntrypoint, Entrypoint(<<>>), Entrypoint(<<"e">>)},
        c \in {<<>>, <<"c">>}}

\* the ContainerConfig a Launcher is made from: architecture, LaunchConfig and
\* the digests of the layers; created tells the configs of one image apart
ContainerConfig(arch, created, config, diff_ids) ==
    [arch |-> arch, created |-> created, config |-> config, diff_ids |-> diff_ids]

NoConfig == ContainerConfig("", 0, [entrypoint |-> NoEntrypoint, cmd |-> <<>>], <<>>)

\* "no Launcher": Application::launcher is None
NoLauncher ==
    [some |-> FALSE, rootfs |-> "", config |-> NoConfig, txrx |-> FALSE, proc |-> "none",
     hpc |-> "none", signals |-> <<>>, n |-> 0, orphans |-> 0,
     status |-> "", sent |-> 0, got |-> ""]

\* Launcher::new
Launcher_new(rootfs, config) ==
    [NoLauncher EXCEPT !.some = TRUE, !.rootfs = rootfs, !.config = config]

\* Launcher::argv: the entrypoint followed by cmd when an entrypoint is set,
\* else cmd
Launcher_argv(l) ==
    IF l.config.config.entrypoint.some
    THEN l.config.config.entrypoint.v \o l.config.config.cmd
    ELSE l.config.config.cmd

\* mutant of Launcher_launch: the process is spawned whatever argv is
Launcher_launch_noCheck(l) ==
    {[l |-> l, res |-> "UidGidError"], [l |-> l, res |-> "SpawnError"],
     [l |-> [l EXCEPT !.txrx = TRUE, !.proc = "running", !.hpc = "select",
                      !.n = @ + 1, !.status = "", !.sent = 0,
                      !.orphans = IF l.proc = "running" THEN @ + 1 ELSE @],
      res |-> "Ok"]}

\* Launcher::launch: with an empty argv nothing is done; else nothing is stored
\* before the spawn has succeeded; then the channel ends replace those of an
\* earlier launch, whose process is left running without a handler
Launcher_launch(l) ==
    IF Launcher_argv(l) = <<>>
    THEN {[l |-> l, res |-> "EmptyArgv"]}
    ELSE {[l |-> l, res |-> "UidGidError"], [l |-> l, res |-> "SpawnError"],
          [l |-> [l EXCEPT !.txrx = TRUE, !.proc = "running", !.hpc = "select",
                           !.n = @ + 1, !.status = "", !.sent = 0,
                           !.orphans = IF l.proc = "running" THEN @ + 1 ELSE @],
           res |-> "Ok"]}

\* the signal Launcher::handler sends for a Request
SignalOf(req) ==
    IF req = "Stop" THEN <<"SIGTERM">> ELSE IF req = "Kill" THEN <<"SIGKILL">> ELSE <<>>

\* the exit statuses process.wait() may return once the handler has served
\* req: that of a process that had exited stays; else the process died of the
\* signal, or exited by itself (on SIGTERM, or before the signal reached it)
StatusAfter(l, req) ==
    IF l.proc = "exited" THEN {l.status}
    ELSE {"exited"} \cup {SignalOf(req)[i] : i \in 1..Len(SignalOf(req))}

\* Launcher::handler, arm "rx.recv()" with a signal that was sent or none to
\* send: the status of the process is awaited and sent, and the loop is left
Handler_serve(l, req) ==
    {[l |-> [l EXCEPT !.signals = @ \o SignalOf(req), !.proc = "exited", !.status = st,
                      !.hpc = "done", !.sent = @ + 1, !.got = st],
      res |-> "ExitStatus"] : st \in StatusAfter(l, req)}

\* mutant of Launcher_send_request: the request is served without looking at
\* txrx
Launcher_send_request_noCheck(l, req) == Handler_serve(l, req)

\* Launcher::send_request, with Launcher::handler at the other end of the
\* channel, for a call that returns: without channel ends AppNotRunning; with
\* a handler that has ended the send fails; else the handler takes the
\* request, signals the process, waits for its exit, sends the status and
\* ends. The caller finds the channel closed instead when the signal could not
\* be sent (the handler returns StopError), or when the process has exited by
\* itself, before the call or during it, and the handler's select takes the
\* arm "process.wait()".
Launcher_send_request(l, req) ==
    IF ~l.txrx
    THEN {[l |-> l, res |-> "AppNotRunning"]}
    ELSE IF l.hpc # "select"
    THEN {[l |-> l, res |-> "RequestChannelError"]}
    ELSE Handler_serve(l, req)
         \cup (IF req = "Wait" THEN {}
               ELSE {[l |-> [l EXCEPT !.hpc = "done"], res |-> "ChannelClosed"]})
         \cup {[l |-> [l EXCEPT !.hpc = "done", !.proc = "exited",
                                !.status = IF l.proc = "exited" THEN @ ELSE "exited"],
                res |-> "ChannelClosed"]}

\* Launcher::stop, Launcher::kill, Launcher::wait
Launcher_stop(l) == Launcher_send_request(l, "Stop")
Launcher_kill(l) == Launcher_send_request(l, "Kill")
Launcher_wait(l) == Launcher_send_request(l, "Wait")

\* ------------------------------------------------ image installer (docker)
\* The installer's inputs are a root of trust and an image archive. A file of
\* the image is its content; a layer file is a tar archive followed by the
\* bytes the tar reader leaves unread.

\* manifest-list entries and layers of an image
MaxEntries == 2
MaxLayers == 2

\* HashType
HashTypes == {"sha256", "sha512"}

\* the digest of the byte blocks bs under the algorithm ty; no two inputs of the
\* model share a digest
Hash(ty, bs) == [ty |-> ty, of |-> bs]

NoHash == Hash("", <<>>)

\* Hasher: the digest runs over the blocks read through it
Hasher_new(ty) == [ty |-> ty, read |-> <<>>]
Hasher_read(h, blocks) == [h EXCEPT !.read = @ \o blocks]
Hasher_finalize(h) == Hash(h.ty, h.read)

\* read_measured: the whole file is read through a Hasher
read_measured(ty, content) ==
    [content |-> content, hash |-> Hasher_finalize(Hasher_read(Hasher_new(ty), <<content>>))]

\* Digest of the config's rootfs.diff_ids: "<algorithm>:<hex>"
Digest(ty, bs) == [ty |-> ty, val |-> Hash(ty, bs)]

\* the root of trust given to read_manifest: Some(rot) or None
NoRot == [some |-> FALSE, val |-> NoHash]
Rot(h) == [some |-> TRUE, val |-> h]

\* the name of a config file in ImageManifest: with or without a '.', its part
\* before the first '.' hexadecimal or not, and the bytes that part decodes to
ConfigName(ext, hex, val) == [ext |-> ext, hex |-> hex, val |-> val]
NoName == ConfigName(FALSE, FALSE, NoHash)

\* paths the installer reads: img/manifest.json, a config file, a layer file
ManifestPath == [file |-> "manifest.json", name |-> NoName, layer |-> ""]
ConfigPath(name) == [file |-> "config", name |-> name, layer |-> ""]
LayerPath(p) == [file |-> "layer", name |-> NoName, layer |-> p]
NoPath == [file |-> "", name |-> NoName, layer |-> ""]

\* ImageError
NoError == [kind |-> "", path |-> NoPath, expected |-> NoHash, got |-> NoHash]
ImageError(kind) == [NoError EXCEPT !.kind = kind]
HashMismatch(path, expected, got) ==
    [kind |-> "HashMismatch", path |-> path, expected |-> expected, got |-> got]

\* what the installer does with a file's content, in order
Event(ev, path) == [ev |-> ev, path |-> path]

\* serde_json::from_str succeeds on the content
Parses(content) == "garbage" \notin DOMAIN content

\* the result of read_container_config and of read_manifest
Selected(err, sel, layers, config, log) ==
    [err |-> err, sel |-> sel, layers |-> layers, config |-> config, log |-> log]

\* mutant of read_container_config: the digest of the config is not compared
read_container_config_noCompare(img, name) ==
    LET m == read_measured("sha256", img.files[name])
    IN IF ~name.ext
       THEN Selected([ImageError("InvalidPath") EXCEPT !.path = ConfigPath(name)],
                     0, <<>>, NoConfig, <<>>)
       ELSE IF ~name.hex
       THEN Selected(ImageError("InvalidHex"), 0, <<>>, NoConfig, <<>>)
       ELSE IF ~Parses(m.content)
       THEN Selected(ImageError("SerdeError"), 0, <<>>, NoConfig,
                     <<Event("verified", ConfigPath(name))>>)
       ELSE Selected(NoError, 0, <<>>, m.content,
                     <<Event("verified", ConfigPath(name)),
                       Event("parsed", ConfigPath(name))>>)

\* Installer::read_container_config: the config file is read and measured, the
\* part of its name before the first '.' is decoded, the two are compared, and
\* then the content is parsed
read_container_config(img, name) ==
    LET m == read_measured("sha256", img.files[name])
    IN IF ~name.ext
       THEN Selected([ImageError("InvalidPath") EXCEPT !.path = ConfigPath(name)],
                     0, <<>>, NoConfig, <<>>)
       ELSE IF ~name.hex
       THEN Selected(ImageError("InvalidHex"), 0, <<>>, NoConfig, <<>>)
       ELSE IF m.hash # name.val
       THEN Selected(HashMismatch(ConfigPath(name), name.val, m.hash), 0, <<>>, NoConfig, <<>>)
       ELSE IF ~Parses(m.content)
       THEN Selected(ImageError("SerdeError"), 0, <<>>, NoConfig,
                     <<Event("verified", ConfigPath(name))>>)
       ELSE Selected(NoError, 0, <<>>, m.content,
                     <<Event("verified", ConfigPath(name)),
                       Event("parsed", ConfigPath(name))>>)

\* mutant of select_manifest: a later entry for arm64 is preferred
RECURSIVE select_manifest_last(_, _, _)
select_manifest_last(img, entries, i) ==
    IF i > Len(entries)
    THEN Selected(ImageError("NoImageForArch"), 0, <<>>, NoConfig, <<>>)
    ELSE LET c == read_container_config(img, entries[i].config)
             r == select_manifest_last(img, entries, i + 1)
         IN IF c.err.kind # ""
            THEN c
            ELSE IF r.err.kind = ""
            THEN [r EXCEPT !.log = c.log \o @]
            ELSE IF c.config.arch = "arm64"
            THEN Selected(NoError, i, entries[i].layers, c.config, c.log)
            ELSE [r EXCEPT !.log = c.log \o @]

\* Installer::read_manifest, its loop over the manifest list from entry i: the
\* entry's config is read, and an error of that ends the loop; the first entry
\* whose config is for arm64 is returned
RECURSIVE select_manifest(_, _, _)
select_manifest(img, entries, i) ==
    IF i > Len(entries)
    THEN Selected(ImageError("NoImageForArch"), 0, <<>>, NoConfig, <<>>)
    ELSE LET c == read_container_config(img, entries[i].config)
         IN IF c.err.kind # ""
            THEN c
            ELSE IF c.config.arch = "arm64"
            THEN Selected(NoError, i, entries[i].layers, c.config, c.log)
            ELSE LET r == select_manifest(img, entries, i + 1)
                 IN [r EXCEPT !.log = c.log \o @]

\* mutant of read_manifest: the root of trust is not looked at
read_manifest_noRot(img, rot) ==
    LET m == read_measured("sha256", img.manifest)
    IN IF ~Parses(m.content)
       THEN Selected(ImageError("SerdeError"), 0, <<>>, NoConfig,
                     <<Event("verified", ManifestPath)>>)
       ELSE LET r == select_manifest(img, m.content.entries, 1)
            IN [r EXCEPT !.log = <<Event("verified", ManifestPath),
                                   Event("parsed", ManifestPath)>> \o @]

\* Installer::read_manifest: manifest.json is read and measured, compared with
\* the root of trust when one is given, parsed, and searched
read_manifest(img, rot) ==
    LET m == read_measured("sha256", img.manifest)
        seen == IF rot.some THEN <<Event("verified", ManifestPath)>> ELSE <<>>
    IN IF rot.some /\ rot.val # m.hash
       THEN Selected(HashMismatch(ManifestPath, rot.val, m.hash), 0, <<>>, NoConfig, <<>>)
       ELSE IF ~Parses(m.content)
       THEN Selected(ImageError("SerdeError"), 0, <<>>, NoConfig, seen)
       ELSE LET r == select_manifest(img, m.content.entries, 1)
            IN [r EXCEPT !.log = seen \o <<Event("parsed", ManifestPath)>> \o @]

\* mutant of validate_manifest: of the entries for arm64 the last is taken
validate_manifest_last(img) ==
    LET m == read_measured("sha256", img.manifest)
    IN IF ~Parses(m.content)
       THEN Selected(ImageError("SerdeError"), 0, <<>>, NoConfig, <<>>)
       ELSE select_manifest_last(img, m.content.entries, 1)

\* Installer::validate: manifest.json is read without a root of trust
validate_manifest(img) == read_manifest(img, NoRot)

\* the bytes of a layer file: its tar archive, then what follows it
Bytes(layer) == <<layer.tar>> \o layer.rest

\* mutant of unpack_layer: the bytes after the tar archive are not read
unpack_layer_noDiscard(layer, digest) ==
    LET h == Hasher_read(Hasher_new(digest.ty), <<layer.tar>>)
    IN [unpacked |-> layer.tar, measurement |-> Hasher_finalize(h)]

\* Installer::install, the body of its loop over the layers up to finalize:
\* the layer is unpacked from a Hasher of the declared algorithm, the rest of
\* the file is read, and the digest is taken
unpack_layer(layer, digest) ==
    LET h == Hasher_read(Hasher_read(Hasher_new(digest.ty), <<layer.tar>>), layer.rest)
    IN [unpacked |-> layer.tar, measurement |-> Hasher_finalize(h)]

\* ---- the images of the model
\* the LaunchConfig of every config of these images
ImageLaunch == [entrypoint |-> NoEntrypoint, cmd |-> <<"sh">>]

\* the layer files of every image, by path: a tar archive alone, and one with
\* bytes after it
LayerFiles == ("A" :> [tar |-> 1, rest |-> <<>>]) @@ ("B" :> [tar |-> 2, rest |-> <<9>>])

\* the digests a config may declare: the one of A, the one of B under sha512,
\* and the one of B's tar archive without what follows it
DiffIds == {Digest("sha256", Bytes(LayerFiles["A"])), Digest("sha512", Bytes(LayerFiles["B"])),
            Digest("sha256", <<LayerFiles["B"].tar>>)}

\* sequences over S of length up to n
SeqUpTo(S, n) == UNION {[1..k -> S] : k \in 0..n}

\* a manifest-list entry of the model: how its config file is named (by its
\* digest, by another digest, not in hexadecimal, without a '.') and what the
\* file holds (a config for an architecture, or no JSON)
EntryKinds ==
    [name : {"digest", "other", "nothex", "noext"}, arch : {"arm64", "amd64", "garbage"}]

\* the content of the config file of entry i
ConfigContent(i, arch, diff_ids) ==
    IF arch = "garbage" THEN [garbage |-> i]
    ELSE ContainerConfig(arch, i, ImageLaunch, diff_ids)

\* the name of the config file with content c
NameOf(kind, c) ==
    CASE kind = "digest" -> ConfigName(TRUE, TRUE, Hash("sha256", <<c>>))
      [] kind = "other" -> ConfigName(TRUE, TRUE, Hash("sha256", <<c, c>>))
      [] kind = "nothex" -> ConfigName(TRUE, FALSE, Hash("sha256", <<c>>))
      [] kind = "noext" -> ConfigName(FALSE, TRUE, Hash("sha256", <<c>>))

\* the image with entries of the kinds ks, each listing the layers ls, and
\* each config declaring the digests ds
Image(ks, ls, ds) ==
    LET conf(i) == ConfigContent(i, ks[i].arch, ds)
        name(i) == NameOf(ks[i].name, conf(i))
        names == {name(i) : i \in 1..Len(ks)}
    IN [manifest |-> [entries |-> [i \in 1..Len(ks) |-> [config |-> name(i), layers |-> ls]]],
        files |-> [n \in names |-> conf(CHOOSE i \in 1..Len(ks) : name(i) = n)],
        layers |-> LayerFiles]

\* an archive whose manifest.json is no JSON
GarbageImage == [manifest |-> [garbage |-> 0], files |-> <<>>, layers |-> LayerFiles]

Images ==
    {GarbageImage}
    \cup {Image(ks, ls, ds) : ks \in SeqUpTo(EntryKinds, MaxEntries),
                              ls \in SeqUpTo(DOMAIN LayerFiles, MaxLayers),
                              ds \in SeqUpTo(DiffIds, MaxLayers)}

\* the roots of trust the registry may give for the image: the digest of its
\* manifest.json, or another one
RotsOf(img) == {Hash("sha256", <<img.manifest>>), Hash("sha256", <<[garbage |-> 1]>>)}

\* the installer's workdir: img/ and what the archive left in it, rootfs/ and
\* the tar archives unpacked onto it
EmptyWorkdir == [img |-> FALSE, files |-> GarbageImage, rootfs |-> FALSE, unpacked |-> <<>>]

\* no installer run
NoRun ==
    [err |-> NoError, launcher |-> NoLauncher, log |-> <<>>, sel |-> 0, done |-> FALSE]

InstallerIdle ==
    [pc |-> "idle", mode |-> "", archive |-> GarbageImage, rot |-> NoRot,
     work |-> EmptyWorkdir, m |-> Selected(NoError, 0, <<>>, NoConfig, <<>>), li |-> 0,
     log |-> <<>>, err |-> NoError, install |-> NoRun, validate |-> NoRun, boots |-> 0]

\* ------------------------------------------------ frames (serde_read, serde_write)
\* calls of serde_write in one run
MaxFrames == 2

\* LengthDelimitedCodec::new(): frames of more than 8 MiB are refused
MaxFrameLength == 8388608

\* the range of i32
I32Max == 2147483647
I32Min == (-I32Max) - 1

\* a String, by what names it and by the bytes of its JSON-escaped UTF-8 text
Str(text, bytes) == [text |-> text, bytes |-> bytes]
NoStr == Str("", 0)
OkStr == Str("Ok", 2)

\* ids: empty, short, and of the lengths around the largest frame
WireIds ==
    {NoStr, Str("a1", 2),
     Str("long", MaxFrameLength - 19), Str("longer", MaxFrameLength - 14)}

\* std::process::ExitStatus is its raw wait status
ExitStatus_from_raw(code) == [raw |-> code]
ExitStatus_into_raw(status) == status.raw

\* wait statuses: both ends of i32, a signal, an exit code, zero, minus one
RawStatuses == {I32Min, -91, -1, 0, 9, 256, I32Max}

\* a value of Command or of Response
Value(ty, variant, id, status) ==
    [ty |-> ty, variant |-> variant, id |-> id, status |-> status]
NoValue == Value("", "", NoStr, ExitStatus_from_raw(0))
AppVariants == {"StartApp", "TerminateApp", "KillApp"}
Commands ==
    {Value("Command", v, id, ExitStatus_from_raw(0)) : v \in AppVariants, id \in WireIds}
    \cup {Value("Command", "Shutdown", NoStr, ExitStatus_from_raw(0))}
Responses ==
    {Value("Response", "Ok", NoStr, ExitStatus_from_raw(0))}
    \cup {Value("Response", "ExitStatus", NoStr, ExitStatus_from_raw(r)) : r \in RawStatuses}
Values == Commands \cup Responses

\* a JSON document of the shapes serde writes for these enums: a string, or an
\* object of one key whose value is a string, a number or an empty array
Json(outer, key, inner, s, n) ==
    [outer |-> outer, key |-> key, inner |-> inner, s |-> s, n |-> n]

\* a mutant of to_json: Shutdown() written as a unit variant
to_json_unit(v) ==
    IF v.ty = "Command"
    THEN IF v.variant = "Shutdown"
         THEN Json("string", "", "", Str("Shutdown", 8), 0)
         ELSE Json("object", v.variant, "string", v.id, 0)
    ELSE IF v.variant = "Ok"
         THEN Json("string", "", "", OkStr, 0)
         ELSE Json("object", "ExitStatus", "number", NoStr, ExitStatus_into_raw(v.status))

\* derive(Serialize), externally tagged: StartApp(id) is {"StartApp":"id"},
\* Shutdown() is {"Shutdown":[]}, Ok is "Ok", ExitStatus(s) is {"ExitStatus":raw}
to_json(v) ==
    IF v.ty = "Command"
    THEN IF v.variant = "Shutdown"
         THEN Json("object", "Shutdown", "array", NoStr, 0)
         ELSE Json("object", v.variant, "string", v.id, 0)
    ELSE IF v.variant = "Ok"
         THEN Json("string", "", "", OkStr, 0)
         ELSE Json("object", "ExitStatus", "number", NoStr, ExitStatus_into_raw(v.status))

\* the bytes of the variants' names
NameLen ==
    [StartApp |-> 8, TerminateApp |-> 12, KillApp |-> 7, Shutdown |-> 8, ExitStatus |-> 10]

\* the bytes of the decimal text of an integer
RECURSIVE NatLen(_)
NatLen(n) == IF n < 10 THEN 1 ELSE 1 + NatLen(n \div 10)
RECURSIVE NegLen(_)
NegLen(n) == IF n > -10 THEN 1 ELSE 1 + NegLen((n + 9) \div 10)
DecLen(n) == IF n < 0 THEN 1 + NegLen(n) ELSE NatLen(n)

\* the bytes of the text of a document
json_len(j) ==
    IF j.outer = "string" THEN 2 + j.s.bytes
    ELSE 2 + (2 + NameLen[j.key]) + 1
         + (IF j.inner = "string" THEN 2 + j.s.bytes
            ELSE IF j.inner = "array" THEN 2
            ELSE DecLen(j.n))

\* the result of reading one value
ReadOk(v) == [err |-> "", val |-> v]
ReadErr(e) == [err |-> e, val |-> NoValue]
NoRead == ReadErr("")

\* derive(Deserialize) for T = Command or Response
from_json(ty, j) ==
    IF ty = "Command"
    THEN IF j.outer = "object" /\ j.key \in AppVariants /\ j.inner = "string"
         THEN ReadOk(Value("Command", j.key, j.s, ExitStatus_from_raw(0)))
         ELSE IF j.outer = "object" /\ j.key = "Shutdown" /\ j.inner = "array"
         THEN ReadOk(Value("Command", "Shutdown", NoStr, ExitStatus_from_raw(0)))
         ELSE ReadErr("SerdeReadError")
    ELSE IF j.outer = "string" /\ j.s = OkStr
         THEN ReadOk(Value("Response", "Ok", NoStr, ExitStatus_from_raw(0)))
         ELSE IF /\ j.outer = "object" /\ j.key = "ExitStatus" /\ j.inner = "number"
                 /\ j.n >= I32Min /\ j.n <= I32Max
         THEN ReadOk(Value("Response", "ExitStatus", NoStr, ExitStatus_from_raw(j.n)))
         ELSE ReadErr("SerdeReadError")

\* the length header of LengthDelimitedCodec: four bytes, big-endian
Header(n) == <<n \div 16777216, (n \div 65536) % 256, (n \div 256) % 256, n % 256>>
HeaderLen(h) == ((h[1] * 256 + h[2]) * 256 + h[3]) * 256 + h[4]
Frame(head, payload) == [head |-> head, payload |-> payload]

\* serde_write: one frame appended to the stream, or nothing when the codec
\* refuses the length
serde_write(stream, v) ==
    LET j == to_json(v)
        n == json_len(j)
    IN IF n > MaxFrameLength
       THEN [res |-> "SerdeWriteError", stream |-> stream]
       ELSE [res |-> "Ok", stream |-> Append(stream, Frame(Header(n), j))]

\* serde_read::<T>: the first frame of the stream, its header's count of bytes
\* parsed as a T; the FramedRead it builds is dropped with whatever it had
\* read beyond that frame, here k further frames
serde_read(ty, stream, k) ==
    LET f == stream[1]
        n == HeaderLen(f.head)
        r == IF n > MaxFrameLength \/ n # json_len(f.payload)
             THEN ReadErr("SerdeReadError")
             ELSE from_json(ty, f.payload)
    IN [got |-> r, stream |-> SubSeq(stream, 2 + k, Len(stream))]

\* one stream between a writer and a reader: the frames in flight, the values
\* they were written from, and the last call and its result
WireIdle ==
    [stream |-> <<>>, vals |-> <<>>, n |-> 0, last |-> "",
     wval |-> NoValue, wres |-> "", rty |-> "", got |-> NoRead, orig |-> NoValue]

\* ------------------------------------------------ control-socket client
\* lines the client types in one run
MaxLines == 3

\* what a line is to handle_cli: a command, a line shlex cannot split, a line
\* clap cannot parse; "blank" is a line that is empty once trimmed
LineKinds == {"cmd", "badsplit", "badargs"}

\* the bytes of a line reach the socket in one piece or in two; the second
\* piece is the line feed alone ("blank") or ends the line's text ("rest")
Chunk(text, nl) == [text |-> text, nl |-> nl]
TypedLines ==
    {<<Chunk("blank", TRUE)>>}
    \cup {<<Chunk(t, TRUE)>> : t \in LineKinds}
    \cup {<<Chunk(t, FALSE), Chunk(r, TRUE)>> : t \in LineKinds, r \in {"blank", "rest"}}

\* the line read_line returns from the pieces it has gathered, trimmed: the
\* whole line when it holds its first piece, else what the last piece holds,
\* and that is taken to be no command
LineOf(buf) ==
    IF buf[1].text = "rest" THEN "badargs" ELSE buf[1].text

\* ClientHandler::run before it starts, with the socket of its client;
\* listen_unixsocket in its loop and main in its select
CliIdle ==
    [pc |-> "none", input |-> <<>>, buf |-> <<>>, typed |-> <<>>,
     msg |-> "", out |-> <<>>, end |-> "", joined |-> {},
     unixl |-> "listening", main |-> "select"]

\* ------------------------------------------------ dm-crypt target line
\* Text is a sequence of characters.
Space == <<" ">>

DecDigits == <<"0", "1", "2", "3", "4", "5", "6", "7", "8", "9">>
HexDigits == DecDigits \o <<"a", "b", "c", "d", "e", "f">>

\* Display of an unsigned integer
RECURSIVE ToDec(_)
ToDec(n) == IF n < 10 THEN <<DecDigits[n + 1]>>
            ELSE ToDec(n \div 10) \o <<DecDigits[(n % 10) + 1]>>

\* hex::encode: two lowercase digits a byte, the high one first
RECURSIVE hex_encode(_)
hex_encode(v) ==
    IF v = <<>> THEN <<>>
    ELSE <<HexDigits[(v[1] \div 16) + 1], HexDigits[(v[1] % 16) + 1]>> \o hex_encode(Tail(v))

\* Display for Cipher
Cipher_fmt(c) ==
    CASE c = "Aes" -> <<"a", "e", "s">>
      [] c = "Twofish" -> <<"t", "w", "o", "f", "i", "s", "h">>
      [] c = "Serpent" -> <<"s", "e", "r", "p", "e", "n", "t">>

\* Display for HashAlgo
HashAlgo_fmt(h) == <<"s", "h", "a", "2", "5", "6">>

\* Display for IvMode
IvMode_fmt(m) ==
    CASE m.mode = "Plain" -> <<"p", "l", "a", "i", "n">>
      [] m.mode = "Plain64" -> <<"p", "l", "a", "i", "n", "6", "4">>
      [] m.mode = "Essiv" -> <<"e", "s", "s", "i", "v", ":">> \o HashAlgo_fmt(m.hash)

\* Display for BlockMode
BlockMode_fmt(b) ==
    CASE b = "Cbc" -> <<"c", "b", "c">>
      [] b = "Xts" -> <<"x", "t", "s">>

\* Display for KeyType
KeyType_fmt(t) ==
    CASE t = "User" -> <<"u", "s", "e", "r">>
      [] t = "Logon" -> <<"l", "o", "g", "o", "n">>
      [] t = "Encrypted" -> <<"e", "n", "c", "r", "y", "p", "t", "e", "d">>

\* Display for Key
Key_fmt(key) ==
    CASE key.kind = "Hex" -> key.h
      [] key.kind = "Raw" -> hex_encode(key.v)
      [] key.kind = "Keyring" ->
            <<":">> \o ToDec(key.key_size) \o <<":">> \o KeyType_fmt(key.key_type)
                    \o <<":">> \o key.key_desc

\* [String]::join
RECURSIVE join(_, _)
join(opts, sep) ==
    IF opts = <<>> THEN <<>>
    ELSE IF Len(opts) = 1 THEN opts[1]
    ELSE opts[1] \o sep \o join(Tail(opts), sep)

\* CryptDevice::load up to table_load: the parameters of the "crypt" target, or
\* PathConversion for a device path that is not UTF-8. The text for the
\* options is pushed onto the formatted line as it is.
CryptDevice_load(entry, devpath, key) ==
    IF ~devpath.utf8
    THEN [ok |-> FALSE, err |-> "PathConversion", params |-> <<>>]
    ELSE LET line == Cipher_fmt(entry.params.cipher) \o <<"-">>
                     \o BlockMode_fmt(entry.params.block_mode) \o <<"-">>
                     \o IvMode_fmt(entry.params.iv_mode) \o Space
                     \o Key_fmt(key) \o Space
                     \o ToDec(entry.params.iv_offset) \o Space
                     \o devpath.text \o Space
                     \o ToDec(entry.offset)
             o == entry.params.additional_options
         IN [ok |-> TRUE, err |-> "",
             params |-> IF o.some
                        THEN line \o ToDec(Len(o.opts)) \o Space \o join(o.opts, Space)
                        ELSE line]

\* the inputs of load
Ciphers == {"Aes", "Twofish", "Serpent"}
BlockModes == {"Cbc", "Xts"}
IvModes == {[mode |-> "Plain", hash |-> ""], [mode |-> "Plain64", hash |-> ""],
            [mode |-> "Essiv", hash |-> "Sha256"]}
IvOffsets == {0, 12}
Offsets == {0, 2048}
NoOptions == [some |-> FALSE, opts |-> <<>>]
AdditionalOptions ==
    {NoOptions}
    \cup {[some |-> TRUE, opts |-> o] :
             o \in {<<>>, <<<<"a", "_", "d">>>>, <<<<"a", "_", "d">>, <<"s", ":", "8">>>>}}
DevPaths == {[utf8 |-> TRUE, text |-> <<"/", "d", "/", "v", "1">>],
             [utf8 |-> FALSE, text |-> <<>>]}
Keys ==
    {[kind |-> "Raw", v |-> v] : v \in {<<>>, <<171, 15>>, <<0, 255, 160>>}}
    \cup {[kind |-> "Hex", h |-> <<"A", "b", "0", "1">>]}
    \cup {[kind |-> "Keyring", key_size |-> 32, key_type |-> t, key_desc |-> <<"k", "1">>] :
             t \in {"Logon", "User", "Encrypted"}}
DmCryptTables ==
    {[start |-> 0, len |-> 4096, offset |-> off,
      params |-> [cipher |-> c, iv_mode |-> iv, block_mode |-> b, iv_offset |-> ivo,
                  additional_options |-> o]] :
        off \in Offsets, c \in Ciphers, iv \in IvModes, b \in BlockModes,
        ivo \in IvOffsets, o \in AdditionalOptions}

\* no table is being loaded
DmIdle == [pc |-> "none"]

\* ------------------------------------------------ guest Application
\* what can be mounted under the application's workdir
Mounts == {"main", "secure", "root"}

\* Application::new, from the ApplicationInfo of RealmInfo
GuestApplication_new(info) ==
    [provision_info |-> info.provision_info # None, main_storage |-> FALSE,
     secure_storage |-> FALSE, formatted |-> {}, mounted |-> {}, launcher |-> NoLauncher]

\* Application::decrypt_main_storage: the device is stored when decrypt_partition
\* has succeeded
Application_decrypt_main_storage(app) ==
    {[app |-> [app EXCEPT !.main_storage = TRUE], res |-> "Ok"],
     [app |-> app, res |-> "DmCryptError"]}

\* mutant of Application_mount_storage: the device is formatted whatever
\* provision_info is
Application_mount_storage_always(app, target) ==
    LET f == [app EXCEPT !.formatted = @ \cup {target}]
    IN {[app |-> app, res |-> "UtilitiesError"],
        [app |-> f, res |-> "MkdirError"],
        [app |-> f, res |-> "UtilitiesError"],
        [app |-> [f EXCEPT !.mounted = @ \cup {target}], res |-> "Ok"]}

\* Application::mount_storage: with provision_info, mkfs.ext2 is run on the
\* device (or cannot be started: UtilitiesError); then the target directory is
\* created, which may fail, and the device is mounted on it, which may fail
Application_mount_storage(app, target) ==
    LET f == IF app.provision_info THEN [app EXCEPT !.formatted = @ \cup {target}] ELSE app
    IN {[app |-> app, res |-> "UtilitiesError"],
        [app |-> f, res |-> "MkdirError"],
        [app |-> f, res |-> "UtilitiesError"],
        [app |-> [f EXCEPT !.mounted = @ \cup {target}], res |-> "Ok"]}

\* the configs Installer::install and Installer::validate may select, for an
\* Application whose image is left open
InstalledConfigs == {ContainerConfig("arm64", 1, lc, <<>>) : lc \in LaunchConfigs}

\* mutant of Application_provision_app_image: no look at main_storage
Application_provision_app_image_noCheck(app) ==
    {[app |-> [m.app EXCEPT !.launcher = Launcher_new("rootfs", c)], res |-> "Ok"] :
        m \in {o \in Application_mount_storage(app, "main") : o.res = "Ok"},
        c \in InstalledConfigs}

\* Application::provision_app_image: the main storage is mounted, then the
\* Launcher comes from Installer::install (provision_info given) or
\* Installer::validate
Application_provision_app_image(app) ==
    IF ~app.main_storage
    THEN {[app |-> app, res |-> "MainStorageNotDecrypted"]}
    ELSE LET ms == Application_mount_storage(app, "main")
         IN {o \in ms : o.res # "Ok"}
            \cup UNION {
                   {[app |-> [m.app EXCEPT !.launcher = Launcher_new("rootfs", c)],
                     res |-> "Ok"] : c \in InstalledConfigs}
                   \cup {[app |-> m.app,
                          res |-> IF app.provision_info THEN "ImageRegistryError"
                                  ELSE "DockerImageError"]} :
                   m \in {o \in ms : o.res = "Ok"}}

\* Application::decrypt_secure_storage
Application_decrypt_secure_storage(app) ==
    {[app |-> [app EXCEPT !.secure_storage = TRUE], res |-> "Ok"],
     [app |-> app, res |-> "DmCryptError"]}

\* Application::provision_secure_memory
Application_provision_secure_memory(app) ==
    IF ~app.secure_storage
    THEN {[app |-> app, res |-> "SecureStorageNotDecrypted"]}
    ELSE Application_mount_storage(app, "secure")

\* Application::mount_overlay
Application_mount_overlay(app) ==
    {[app |-> [app EXCEPT !.mounted = @ \cup {"root"}], res |-> "Ok"],
     [app |-> app, res |-> "MkdirError"]}

\* the outcomes of a Launcher operation, as outcomes of the Application
OfLauncher(app, outs) == {[app |-> [app EXCEPT !.launcher = o.l], res |-> o.res] : o \in outs}

\* Application::launch
Application_launch(app) ==
    IF app.launcher.some
    THEN OfLauncher(app, Launcher_launch(app.launcher))
    ELSE {[app |-> app, res |-> "ApplicationNotInstalled"]}

\* Application::terminate
Application_terminate(app) ==
    IF app.launcher.some
    THEN OfLauncher(app, Launcher_stop(app.launcher))
    ELSE {[app |-> app, res |-> "ApplicationNotInstalled"]}

\* Application::kill
Application_kill(app) ==
    IF app.launcher.some
    THEN OfLauncher(app, Launcher_kill(app.launcher))
    ELSE {[app |-> app, res |-> "ApplicationNotInstalled"]}

\* the launched process exits by itself
ProcessExits(app) == [app EXCEPT !.launcher.proc = "exited", !.launcher.status = "exited"]

\* Launcher::handler, arm "process.wait()": the handler task ends
HandlerEnds(app) == [app EXCEPT !.launcher.hpc = "done"]

\* ------------------------------------------------ AppManager and main
\* application ids in the guest's RealmInfo, and an id no application has
GuestAppIds == {"a1", "a2"}
UnknownApp == "zz"

\* frames the peer sends after RealmInfo
MaxCommands == 2

\* provisioning sources in ApplicationInfo: none, or an image uuid
GuestProvision == {None, 1}

\* the ApplicationInfo values of the guest's inputs
AppInfos ==
    {[main_partition_uuid |-> 1, secure_partition_uuid |-> 2, provision_info |-> p] :
        p \in GuestProvision}

\* the RealmInfo values of the guest's inputs: no application, one, two
GuestInfos ==
    {<<>>} \cup {("a1" :> i) : i \in AppInfos}
           \cup {("a1" :> i) @@ ("a2" :> i) : i \in AppInfos}

\* Command::StartApp(id), TerminateApp(id), KillApp(id) as a frame
AppCommandFrame(cmd, id) == CommandFrame([cmd |-> cmd, id |-> id])

\* the Command frames of the guest's inputs
GuestCommands ==
    {CommandFrame(Command_Shutdown)}
    \cup {AppCommandFrame(c, id) : c \in AppRequests, id \in {"a1", UnknownApp}}

\* no manager process (every specification but SpecGuest)
ManagerIdle ==
    [pc |-> "none", apps |-> <<>>, inbox |-> <<>>, read |-> <<>>, out |-> <<>>,
     err |-> "", sent |-> 0]

NoCall == [op |-> "", res |-> ""]

GuestIdle == mgr = ManagerIdle /\ obj = GuestApplication_new([provision_info |-> None])
             /\ ret = NoCall /\ inst = InstallerIdle /\ wire = WireIdle /\ cli = CliIdle /\ dm = DmIdle

\* main returns: with Ok after the loop, or with the error of the step that
\* failed
MgrExit(err) == mgr' = [mgr EXCEPT !.pc = "exited", !.err = err]

\* what the method of AppManager named step calls on each Application
AppOp(step, app) ==
    CASE step = "decrypt_main_storage" -> Application_decrypt_main_storage(app)
      [] step = "provision_app_image" -> Application_provision_app_image(app)
      [] step = "decrypt_secure_storage" -> Application_decrypt_secure_storage(app)
      [] step = "provision_secure_storage" -> Application_provision_secure_memory(app)
      [] step = "mount_overlay" -> Application_mount_overlay(app)

\* a method of AppManager: it calls its operation on every application in the
\* map's iteration order and returns at the first error. The applications in
\* done have been served, then either all are served or the one called
\* failed is
ManagerRun(step, apps) ==
    LET ids == DOMAIN apps
        OkApps(id) == {o.app : o \in {o \in AppOp(step, apps[id]) : o.res = "Ok"}}
        Errs(id) == {o \in AppOp(step, apps[id]) : o.res # "Ok"}
        All == UNION {OkApps(id) : id \in ids} \cup {apps[id] : id \in ids}
                  \cup UNION {{o.app : o \in Errs(id)} : id \in ids}
    IN {[apps |-> f, res |-> "Ok"] :
           f \in {g \in [ids -> All] : \A id \in ids : g[id] \in OkApps(id)}}
       \cup UNION {UNION {UNION {
              {[apps |-> f, res |-> e.res] :
                  f \in {g \in [ids -> All] :
                            \A id \in ids :
                               IF id \in done THEN g[id] \in OkApps(id)
                               ELSE IF id = failed THEN g[id] = e.app
                               ELSE g[id] = apps[id]}} :
              e \in Errs(failed)} :
              failed \in ids \ done} :
              done \in SUBSET ids}

\* one step of main that is a method of AppManager over all applications
MgrStep(step, next) ==
    /\ mgr.pc = step
    /\ \E r \in ManagerRun(step, mgr.apps) :
          mgr' = [mgr EXCEPT !.apps = r.apps,
                             !.pc = IF r.res = "Ok" THEN next ELSE "exited",
                             !.err = IF r.res = "Ok" THEN "" ELSE r.res]
    /\ UNCHANGED <<dispVars, harnessVars, hostVars, inst, wire, cli, dm, obj, ret>>

\* AppManager::setup: the workdir, the vsock connection to the host, the disks,
\* the device mapper, the key manager
MgrSetup ==
    /\ mgr.pc = "setup"
    /\ \/ mgr' = [mgr EXCEPT !.pc = "read_provision_info"]
       \/ MgrExit("ConnectionFailed")
    /\ UNCHANGED <<dispVars, harnessVars, hostVars, inst, wire, cli, dm, obj, ret>>

\* the peer on the stream (the realm's supervisor) writes RealmInfo first
PeerSendsRealmInfo(info) ==
    /\ mgr.pc \notin {"none", "setup", "exited"}
    /\ mgr.sent = 0
    /\ mgr' = [mgr EXCEPT !.inbox = Append(@, RealmInfoFrame(info)), !.sent = 1]
    /\ UNCHANGED <<dispVars, harnessVars, hostVars, inst, wire, cli, dm, obj, ret>>

\* the peer writes a Command
PeerSendsCommand(f) ==
    /\ mgr.pc # "exited"
    /\ mgr.sent \in 1..MaxCommands
    /\ mgr' = [mgr EXCEPT !.inbox = Append(@, f), !.sent = @ + 1]
    /\ UNCHANGED <<dispVars, harnessVars, hostVars, inst, wire, cli, dm, obj, ret>>

\* AppManager::read_provision_info: one frame is read as RealmInfo and an
\* Application is made for each entry (Application::new creates its workdir)
MgrReadProvisionInfo ==
    /\ mgr.pc = "read_provision_info"
    /\ mgr.inbox # <<>>
    /\ LET f == Head(mgr.inbox)
       IN IF f.t # "RealmInfo"
          THEN mgr' = [mgr EXCEPT !.inbox = Tail(@), !.read = Append(@, f),
                                  !.pc = "exited", !.err = "SerdeReadError"]
          ELSE \/ mgr' = [mgr EXCEPT
                      !.inbox = Tail(@), !.read = Append(@, f),
                      !.apps = [id \in DOMAIN f.body |-> GuestApplication_new(f.body[id])],
                      !.pc = "decrypt_main_storage"]
               \/ /\ DOMAIN f.body # {}
                  /\ mgr' = [mgr EXCEPT !.inbox = Tail(@), !.read = Append(@, f),
                                        !.pc = "exited", !.err = "WorkdirCreation"]
    /\ UNCHANGED <<dispVars, harnessVars, hostVars, inst, wire, cli, dm, obj, ret>>

\* main, the steps between read_provision_info and event_loop, in main's order
\* (provision_app_image taken as awaited)
MgrDecryptMainStorage ==
    MgrStep("decrypt_main_storage", "provision_app_image")

MgrProvisionAppImage ==
    MgrStep("provision_app_image", "decrypt_secure_storage")

MgrDecryptSecureStorage ==
    MgrStep("decrypt_secure_storage", "provision_secure_storage")

MgrProvisionSecureStorage ==
    MgrStep("provision_secure_storage", "mount_overlay")

MgrMountOverlay ==
    MgrStep("mount_overlay", "event_loop")

\* AppManager::handle_command: the Response, or the error it returns, with the
\* applications as the call leaves them
handle_command(apps, cmd) ==
    IF cmd = Command_Shutdown
    THEN {[apps |-> apps, res |-> "Ok", resp |-> "Ok"]}
    ELSE IF cmd.id \notin DOMAIN apps
    THEN {[apps |-> apps, res |-> "ApplicationDoesNotExists", resp |-> ""]}
    ELSE LET id == cmd.id
             outs == IF cmd.cmd = "TerminateApp" THEN Application_terminate(apps[id])
                     ELSE IF cmd.cmd = "KillApp" THEN Application_kill(apps[id])
                     ELSE Application_launch(apps[id])
         IN {[apps |-> [apps EXCEPT ![id] = o.app],
              res |-> IF o.res \in {"Ok", "ExitStatus"} THEN "Ok" ELSE o.res,
              resp |-> IF o.res \in {"Ok", "ExitStatus"} THEN o.res ELSE ""] :
                o \in outs}

\* AppManager::event_loop, one round: a Command is read and handled; its
\* Response is written, and after Shutdown the loop breaks; an error of the
\* read or of handle_command is returned from the loop and from main
MgrEventLoop ==
    /\ mgr.pc = "event_loop"
    /\ mgr.inbox # <<>>
    /\ LET f == Head(mgr.inbox)
       IN IF f.t # "Command"
          THEN mgr' = [mgr EXCEPT !.inbox = Tail(@), !.read = Append(@, f),
                                  !.pc = "exited", !.err = "SerdeReadError"]
          ELSE \E r \in handle_command(mgr.apps, f.body) :
                  mgr' = [mgr EXCEPT
                     !.inbox = Tail(@), !.read = Append(@, f),
                     !.apps = r.apps,
                     !.out = IF r.res = "Ok" THEN Append(@, ResponseFrame(r.resp)) ELSE @,
                     !.pc = IF r.res # "Ok" \/ f.body = Command_Shutdown THEN "exited"
                            ELSE "event_loop",
                     !.err = IF r.res = "Ok" THEN "" ELSE r.res]
    /\ UNCHANGED <<dispVars, harnessVars, hostVars, inst, wire, cli, dm, obj, ret>>

\* a process launched by StartApp exits by itself
MgrProcessExits(id) ==
    /\ mgr.pc = "event_loop"
    /\ mgr.apps[id].launcher.proc = "running"
    /\ mgr' = [mgr EXCEPT !.apps[id] = ProcessExits(@)]
    /\ UNCHANGED <<dispVars, harnessVars, hostVars, inst, wire, cli, dm, obj, ret>>

\* Launcher::handler of an application sees its process exit
MgrHandlerEnds(id) ==
    /\ mgr.pc = "event_loop"
    /\ mgr.apps[id].launcher.hpc = "select"
    /\ mgr.apps[id].launcher.proc = "exited"
    /\ mgr' = [mgr EXCEPT !.apps[id] = HandlerEnds(@)]
    /\ UNCHANGED <<dispVars, harnessVars, hostVars, inst, wire, cli, dm, obj, ret>>

\* the app-manager from its start, with the supervisor's end of the stream as
\* input
NextGuest ==
    \/ MgrSetup
    \/ \E info \in GuestInfos : PeerSendsRealmInfo(info)
    \/ \E f \in GuestCommands : PeerSendsCommand(f)
    \/ MgrReadProvisionInfo
    \/ MgrDecryptMainStorage
    \/ MgrProvisionAppImage
    \/ MgrDecryptSecureStorage
    \/ MgrProvisionSecureStorage
    \/ MgrMountOverlay
    \/ MgrEventLoop
    \/ \E id \in DOMAIN mgr.apps : MgrProcessExits(id)
    \/ \E id \in DOMAIN mgr.apps : MgrHandlerEnds(id)

\* ------------------------------------------------ one Application, call by call
\* a call of the operation op on the Application, with one of its outcomes
Call(op, outs) ==
    /\ \E o \in outs : obj' = o.app /\ ret' = [op |-> op, res |-> o.res]
    /\ UNCHANGED <<dispVars, harnessVars, hostVars, inst, wire, cli, dm, mgr>>

CallDecryptMainStorage == Call("decrypt_main_storage", Application_decrypt_main_storage(obj))
CallProvisionAppImage == Call("provision_app_image", Application_provision_app_image(obj))
CallDecryptSecureStorage ==
    Call("decrypt_secure_storage", Application_decrypt_secure_storage(obj))
CallProvisionSecureMemory ==
    Call("provision_secure_memory", Application_provision_secure_memory(obj))
CallMountOverlay == Call("mount_overlay", Application_mount_overlay(obj))
CallLaunch == obj.launcher.n < MaxLaunch /\ Call("launch", Application_launch(obj))
CallTerminate == Call("terminate", Application_terminate(obj))
CallKill == Call("kill", Application_kill(obj))

\* a call on the Application's Launcher itself
LauncherCall(op, outs) == obj.launcher.some /\ Call(op, OfLauncher(obj, outs))

LauncherStop == LauncherCall("Launcher::stop", Launcher_stop(obj.launcher))
LauncherKill == LauncherCall("Launcher::kill", Launcher_kill(obj.launcher))
LauncherWait == LauncherCall("Launcher::wait", Launcher_wait(obj.launcher))

\* the launched process exits by itself
ObjProcessExits ==
    /\ obj.launcher.proc = "running"
    /\ obj' = ProcessExits(obj)
    /\ UNCHANGED <<dispVars, harnessVars, hostVars, inst, wire, cli, dm, mgr, ret>>

\* Launcher::handler sees the process exit
ObjHandlerEnds ==
    /\ obj.launcher.hpc = "select"
    /\ obj.launcher.proc = "exited"
    /\ obj' = HandlerEnds(obj)
    /\ UNCHANGED <<dispVars, harnessVars, hostVars, inst, wire, cli, dm, mgr, ret>>

\* ------------------------------------------------ the installer, step by step
\* boots of the guest over one main storage
MaxBoots == 2

\* mutant of Application_store: the Launcher is stored whatever the result
Application_store_always(app, err, config) ==
    [app EXCEPT !.launcher = Launcher_new("rootfs", config)]

\* Application::provision_app_image, "self.launcher = Some(..?)": the Launcher
\* of the selected config is stored when the installer returned one
Application_store(app, err, config) ==
    IF err.kind = "" THEN [app EXCEPT !.launcher = Launcher_new("rootfs", config)] ELSE app

\* Installer::install or Installer::validate returns to provision_app_image,
\* which returns to main
InstallerReturns(work, log, err, m) ==
    /\ obj' = Application_store(obj, err, m.config)
    /\ ret' = [op |-> "provision_app_image",
               res |-> IF err.kind = "" THEN "Ok" ELSE "DockerImageError"]
    /\ inst' = [inst EXCEPT
                  !.pc = "returned", !.work = work, !.log = log, !.err = err, !.m = m,
                  ![inst.mode] = [err |-> err,
                                  launcher |-> IF err.kind = ""
                                               THEN Launcher_new("rootfs", m.config)
                                               ELSE NoLauncher,
                                  log |-> log, sel |-> IF err.kind = "" THEN m.sel ELSE 0,
                                  done |-> TRUE]]

\* Application::provision_app_image up to the installer's first read: the
\* main storage is mounted (and formatted, for a provisioned application);
\* then the image comes from the registry and is unpacked into img/ by
\* Installer::install, or Installer::validate is entered
ProvisionBegin ==
    /\ inst.pc = "idle"
    /\ obj.main_storage
    /\ \E mo \in Application_mount_storage(obj, "main") :
          IF mo.res # "Ok"
          THEN /\ obj' = mo.app
               /\ ret' = [op |-> "provision_app_image", res |-> mo.res]
               /\ inst' = [inst EXCEPT !.pc = "returned"]
          ELSE IF obj.provision_info
          THEN \/ /\ obj' = mo.app
                  /\ ret' = [op |-> "provision_app_image", res |-> "ImageRegistryError"]
                  /\ inst' = [inst EXCEPT !.pc = "returned", !.work = EmptyWorkdir,
                                          !.install = NoRun, !.validate = NoRun]
               \/ /\ obj' = mo.app
                  /\ ret' = ret
                  /\ inst' = [inst EXCEPT
                                !.pc = "read_manifest", !.mode = "install",
                                !.work = [EmptyWorkdir EXCEPT !.img = TRUE,
                                                              !.files = inst.archive],
                                !.install = NoRun, !.validate = NoRun]
          ELSE /\ obj' = mo.app
               /\ ret' = ret
               /\ inst' = [inst EXCEPT !.pc = "read_manifest", !.mode = "validate",
                                       !.validate = NoRun]
    /\ UNCHANGED <<dispVars, harnessVars, hostVars, mgr, wire, cli, dm>>

\* Installer::read_manifest, called by install with the root of trust and by
\* validate without; validate returns the Launcher of the selected config
ReadManifest ==
    /\ inst.pc = "read_manifest"
    /\ IF ~inst.work.img
       THEN InstallerReturns(inst.work, <<>>, ImageError("FileOpenError"), inst.m)
       ELSE LET r == IF inst.mode = "install" THEN read_manifest(inst.work.files, inst.rot)
                     ELSE validate_manifest(inst.work.files)
            IN IF r.err.kind # "" \/ inst.mode = "validate"
               THEN InstallerReturns(inst.work, r.log, r.err, r)
               ELSE /\ inst' = [inst EXCEPT !.pc = "rootfs", !.m = r, !.log = r.log]
                    /\ UNCHANGED <<obj, ret>>
    /\ UNCHANGED <<dispVars, harnessVars, hostVars, mgr, wire, cli, dm>>

\* Installer::install: rootfs/ is created, then the number of layers is
\* compared with the number of digests
CreateRootfs ==
    /\ inst.pc = "rootfs"
    /\ LET work == [inst.work EXCEPT !.rootfs = TRUE]
       IN IF Len(inst.m.layers) # Len(inst.m.config.diff_ids)
          THEN InstallerReturns(work, inst.log, ImageError("HashNumberMismatch"), inst.m)
          ELSE /\ inst' = [inst EXCEPT !.pc = "layers", !.li = 1, !.work = work]
               /\ UNCHANGED <<obj, ret>>
    /\ UNCHANGED <<dispVars, harnessVars, hostVars, mgr, wire, cli, dm>>

\* Installer::install, one turn of its loop over the layers: the layer is
\* unpacked onto rootfs/, then its digest is compared with the declared one
InstallLayer ==
    /\ inst.pc = "layers"
    /\ inst.li <= Len(inst.m.layers)
    /\ LET path == inst.m.layers[inst.li]
           digest == inst.m.config.diff_ids[inst.li]
           u == unpack_layer(inst.work.files.layers[path], digest)
           work == [inst.work EXCEPT !.unpacked = Append(@, u.unpacked)]
           log == Append(inst.log, Event("unpacked", LayerPath(path)))
       IN \/ InstallerReturns(work, log, ImageError("ArchiveError"), inst.m)
          \/ IF u.measurement # digest.val
             THEN InstallerReturns(work, log,
                                   HashMismatch(LayerPath(path), digest.val, u.measurement),
                                   inst.m)
             ELSE /\ inst' = [inst EXCEPT
                                !.li = @ + 1, !.work = work,
                                !.log = Append(log, Event("verified", LayerPath(path)))]
                  /\ UNCHANGED <<obj, ret>>
    /\ UNCHANGED <<dispVars, harnessVars, hostVars, mgr, wire, cli, dm>>

\* Installer::install returns the Launcher after the last layer
InstallDone ==
    /\ inst.pc = "layers"
    /\ inst.li > Len(inst.m.layers)
    /\ InstallerReturns(inst.work, inst.log, NoError, inst.m)
    /\ UNCHANGED <<dispVars, harnessVars, hostVars, mgr, wire, cli, dm>>

\* the realm is launched again, with the ApplicationInfo the host then has: a
\* new Application over the same main storage
GuestReboot ==
    /\ inst.pc = "returned"
    /\ inst.boots + 1 < MaxBoots
    /\ \E i \in AppInfos : obj' = GuestApplication_new(i)
    /\ ret' = NoCall
    /\ inst' = [inst EXCEPT !.pc = "idle", !.mode = "", !.li = 0, !.log = <<>>,
                            !.err = NoError,
                            !.m = Selected(NoError, 0, <<>>, NoConfig, <<>>),
                            !.boots = @ + 1]
    /\ UNCHANGED <<dispVars, harnessVars, hostVars, mgr, wire, cli, dm>>

\* main's calls on the Application before and after provision_app_image
InstDecryptMainStorage == inst.pc = "idle" /\ ~obj.main_storage /\ CallDecryptMainStorage
InstLaunch == inst.pc = "returned" /\ CallLaunch

NextInstall ==
    \/ InstDecryptMainStorage
    \/ ProvisionBegin
    \/ ReadManifest
    \/ CreateRootfs
    \/ InstallLayer
    \/ InstallDone
    \/ GuestReboot
    \/ InstLaunch
    \/ ObjProcessExits

NextApp ==
    \/ CallDecryptMainStorage
    \/ CallProvisionAppImage
    \/ CallDecryptSecureStorage
    \/ CallProvisionSecureMemory
    \/ CallMountOverlay
    \/ CallLaunch
    \/ CallTerminate
    \/ CallKill
    \/ LauncherStop
    \/ LauncherKill
    \/ LauncherWait
    \/ ObjProcessExits
    \/ ObjHandlerEnds

\* ------------------------------------------------- dispatcher harness
\* the stream a harness call passes to add_stream: a fresh one
FreshStream == <<1 + Len(added[3]) + Len(added[4])>>

DispInit ==
    /\ available = DispNew.available
    /\ requests = DispNew.requests
    /\ oneshot = <<>>

HarnessInit ==
    /\ nReq = [c \in CIDs |-> 0]
    /\ added = [c \in CIDs |-> <<>>]
    /\ dres = "none"

\* a caller invokes request_stream(c) under the mutex
DispRequestStream(c) ==
    /\ nReq[c] < MaxCalls
    /\ LET d == request_stream(Disp, c)
       IN /\ available' = d.available
          /\ requests' = d.requests
          /\ oneshot' = d.oneshot
          /\ dres' = d.res
    /\ nReq' = [nReq EXCEPT ![c] = @ + 1]
    /\ UNCHANGED <<added, hostVars, guestVars>>

\* a caller invokes add_stream(c, s) under the mutex
DispAddStream(c) ==
    /\ Len(added[c]) < MaxCalls
    /\ LET d == add_stream(Disp, c, FreshStream)
       IN /\ available' = d.available
          /\ requests' = d.requests
          /\ oneshot' = d.oneshot
          /\ dres' = d.res
    /\ added' = [added EXCEPT ![c] = Append(@, FreshStream)]
    /\ UNCHANGED <<nReq, hostVars, guestVars>>

\* a waiter goes away: its Receiver is dropped
DispDropReceiver(k) ==
    /\ oneshot[k].rx
    /\ oneshot' = [oneshot EXCEPT ![k].rx = FALSE]
    /\ UNCHANGED <<available, requests, nReq, added, dres, hostVars, guestVars>>

NextDisp ==
    \/ \E c \in CIDs : DispRequestStream(c)
    \/ \E c \in CIDs : DispAddStream(c)
    \/ \E k \in DOMAIN oneshot : DispDropReceiver(k)

InitDisp == DispInit /\ HarnessInit /\ HostInit /\ GuestIdle

SpecDisp == InitDisp /\ [][NextDisp]_vars

\* the daemon after Daemon::init, with both listeners started
Init == DispInit /\ HarnessInit /\ HostInit /\ GuestIdle

\* the daemon and one client that manages one realm
Spec == Init /\ [][Next]_vars

\* the daemon and one client that creates and launches two realms: the
\* supervisors and the guests of both meet in the one dispatcher
NextTwo ==
    \/ \E s \in Sessions : ClientAccept(s)
    \/ \E s \in Sessions, id \in TwoRealmIds, c \in CIDs : CreateRealm(s, id, c)
    \/ \E s \in Sessions, id \in TwoRealmIds : LaunchRealm(s, id)
    \/ \E k \in DOMAIN sup : SupRequestStream(k)
    \/ \E k \in DOMAIN sup : SupStreamArrived(k)
    \/ \E k \in DOMAIN sup : SupTimeout(k)
    \/ \E k \in DOMAIN sup : SupChildExited(k)
    \/ \E k \in DOMAIN sup, pipe \in {"stdout", "stderr"} : SupReadLine(k, pipe)
    \/ \E k \in DOMAIN sup : SupReap(k)
    \/ \E k \in DOMAIN child : ChildExit(k)
    \/ \E k \in DOMAIN child : VsockAccept(k)
    \/ \E k \in DOMAIN streams : VsockAddStream(k)
    \/ \E i \in DOMAIN streams : GuestStart(i)

InitTwo == DispInit /\ HarnessInit /\ HostInit /\ GuestIdle

SpecTwo == InitTwo /\ [][NextTwo]_vars

\* the daemon and one client that manages one realm without applications, with
\* the scheduling the runtime guarantees: a supervisor task or a session that
\* can take a step eventually takes one. Nothing obliges the client to type,
\* the guest to connect or the hypervisor to exit.
NextLive ==
    \/ \E s \in Sessions : ClientAccept(s)
    \/ \E s \in Sessions, id \in RealmIds, c \in CIDs : CreateRealm(s, id, c)
    \/ \E s \in Sessions, id \in RealmIds : LaunchRealm(s, id)
    \/ \E s \in Sessions, id \in RealmIds, req \in Requests : SendRequest(s, id, req)
    \/ \E s \in Sessions : RecvResponse(s)
    \/ \E k \in DOMAIN sup : SupRequestStream(k)
    \/ \E k \in DOMAIN sup : SupStreamArrived(k)
    \/ \E k \in DOMAIN sup : SupTimeout(k)
    \/ \E k \in DOMAIN sup : SupChildExited(k)
    \/ \E k \in DOMAIN sup : SupRecvRequest(k)
    \/ \E k \in DOMAIN sup : SupReadResponse(k)
    \/ \E k \in DOMAIN sup : SupReap(k)
    \/ \E k \in DOMAIN child : ChildExit(k)
    \/ \E k \in DOMAIN child : VsockAccept(k)
    \/ \E k \in DOMAIN streams : VsockAddStream(k)
    \/ \E i \in DOMAIN streams : GuestStart(i)
    \/ \E i \in DOMAIN streams : GuestSetup(i)
    \/ \E i \in DOMAIN streams : GuestEventLoop(i)
    \/ \E i \in DOMAIN streams : GuestBreak(i)

\* the steps of the daemon's own tasks
DaemonStep ==
    \/ \E s \in Sessions : RecvResponse(s)
    \/ \E k \in DOMAIN sup : SupRequestStream(k)
    \/ \E k \in DOMAIN sup : SupStreamArrived(k)
    \/ \E k \in DOMAIN sup : SupTimeout(k)
    \/ \E k \in DOMAIN sup : SupChildExited(k)
    \/ \E k \in DOMAIN sup : SupRecvRequest(k)
    \/ \E k \in DOMAIN sup : SupReadResponse(k)
    \/ \E k \in DOMAIN sup : SupReap(k)

InitLive == DispInit /\ HarnessInit /\ HostInit /\ GuestIdle

SpecLive == InitLive /\ [][NextLive]_vars /\ WF_vars(DaemonStep)

\* the guest manager from its start, with the supervisor's end of the stream
\* as input
InitGuest ==
    /\ DispInit /\ HarnessInit /\ HostInit
    /\ mgr = [ManagerIdle EXCEPT !.pc = "setup"]
    /\ obj = GuestApplication_new([provision_info |-> None])
    /\ ret = NoCall
    /\ inst = InstallerIdle
    /\ wire = WireIdle /\ cli = CliIdle /\ dm = DmIdle

SpecGuest == InitGuest /\ [][NextGuest]_vars

\* one guest Application under arbitrary sequences of calls
InitApp ==
    /\ DispInit /\ HarnessInit /\ HostInit
    /\ mgr = ManagerIdle
    /\ obj \in {GuestApplication_new(i) : i \in AppInfos}
    /\ ret = NoCall
    /\ inst = InstallerIdle
    /\ wire = WireIdle /\ cli = CliIdle /\ dm = DmIdle

SpecApp == InitApp /\ [][NextApp]_vars

\* the daemon stops and is started again over the same workdir: its sessions
\* and realms are gone, the disk files are not
DaemonRestart ==
    /\ sess' = [s \in Sessions |-> [pc |-> "none", on |-> <<>>, cmd |-> "", result |-> ""]]
    /\ realms' = <<>>
    /\ UNCHANGED <<dispVars, harnessVars, guestVars, cancel, vsockl, disks, sup, child, spawned,
                   streams>>

\* application ids and disk sizes of the commands on disks
DiskAppIds == {"a1", "a2"}
DiskSizesMB == {1, 2}

DiskConfigs ==
    [main_storage_size_mb : DiskSizesMB, secure_storage_size_mb : DiskSizesMB,
     provision_from : ProvisionFroms]

NextDisk ==
    \/ \E s \in Sessions : ClientAccept(s)
    \/ \E s \in Sessions, id \in RealmIds, c \in CIDs : CreateRealm(s, id, c)
    \/ \E s \in Sessions, id \in DiskAppIds, rid \in RealmIds, cfg \in DiskConfigs :
          CreateApplication(s, id, rid, cfg)
    \/ DaemonRestart

\* realms and applications created and created again over the same disk files
InitDisk == DispInit /\ HarnessInit /\ HostInit /\ GuestIdle

SpecDisk == InitDisk /\ [][NextDisk]_vars

\* the installer under the Application that runs it, for every image and root
\* of trust of the model, over two boots
InitInstall ==
    /\ DispInit /\ HarnessInit /\ HostInit
    /\ mgr = ManagerIdle
    /\ obj \in {GuestApplication_new(i) : i \in AppInfos}
    /\ ret = NoCall
    /\ \E img \in Images : \E rot \in RotsOf(img) :
          inst = [InstallerIdle EXCEPT !.archive = img, !.rot = Rot(rot)]
    /\ wire = WireIdle /\ cli = CliIdle /\ dm = DmIdle

SpecInstall == InitInstall /\ [][NextInstall]_vars

\* a writer calls serde_write with v
WriteValue(v) ==
    /\ wire.n < MaxFrames
    /\ LET w == serde_write(wire.stream, v)
       IN wire' = [wire EXCEPT !.stream = w.stream,
                               !.vals = IF w.res = "Ok" THEN Append(@, v) ELSE @,
                               !.n = @ + 1, !.last = "write",
                               !.wval = v, !.wres = w.res]
    /\ UNCHANGED <<dispVars, harnessVars, hostVars, mgr, obj, ret, inst, cli, dm>>

\* a reader calls serde_read::<ty> while a frame is in flight, and its
\* FramedRead had buffered k of the frames behind it
ReadValue(ty, k) ==
    /\ wire.stream # <<>>
    /\ k < Len(wire.stream)
    /\ LET r == serde_read(ty, wire.stream, k)
       IN wire' = [wire EXCEPT !.stream = r.stream,
                               !.vals = SubSeq(@, 2 + k, Len(@)),
                               !.last = "read", !.rty = ty,
                               !.got = r.got, !.orig = wire.vals[1]]
    /\ UNCHANGED <<dispVars, harnessVars, hostVars, mgr, obj, ret, inst, cli, dm>>

NextFrame ==
    \/ \E v \in Values : WriteValue(v)
    \/ \E ty \in {"Command", "Response"} : \E k \in 0..(MaxFrames - 1) : ReadValue(ty, k)

\* the framing functions on a stream of their own, for every value of the model
InitFrame == DispInit /\ HarnessInit /\ HostInit /\ GuestIdle

SpecFrame == InitFrame /\ [][NextFrame]_vars


\* ------------------------------------------------ one client, line by line
\* the session the client talks to
ClientSession == CHOOSE s \in Sessions : \A t \in Sessions : s <= t

\* the client types a line: its first piece reaches the socket
ClientTypes(l) ==
    /\ sess[ClientSession].pc # "none"
    /\ Len(cli.typed) < MaxLines
    /\ IF cli.typed = <<>> THEN TRUE
       ELSE LET last == cli.typed[Len(cli.typed)] IN last[Len(last)].nl
    /\ cli' = [cli EXCEPT !.typed = Append(@, <<l[1]>>), !.input = Append(@, l[1])]
    /\ UNCHANGED <<dispVars, harnessVars, hostVars, mgr, obj, ret, inst, wire, dm>>

\* the second piece of the line reaches the socket
ClientTypesRest(c) ==
    /\ cli.typed # <<>>
    /\ LET n == Len(cli.typed)
       IN /\ ~cli.typed[n][1].nl
          /\ Len(cli.typed[n]) = 1
          /\ cli' = [cli EXCEPT !.typed[n] = Append(@, c), !.input = Append(@, c)]
    /\ UNCHANGED <<dispVars, harnessVars, hostVars, mgr, obj, ret, inst, wire, dm>>

\* run leaves its loop with break
RunBreaks(reason, input) ==
    /\ sess' = [sess EXCEPT ![ClientSession].pc = "joining"]
    /\ cli' = [cli EXCEPT !.pc = "left", !.end = reason, !.buf = <<>>, !.input = input]

\* run returns an error through `?`: its JoinSet is dropped, which aborts the
\* supervisor tasks it holds
RunFails ==
    /\ sess' = [sess EXCEPT ![ClientSession].pc = "done"]
    /\ cli' = [cli EXCEPT !.pc = "left", !.end = "io", !.buf = <<>>]
    /\ sup' = [k \in DOMAIN sup |->
                 IF k[1] = ClientSession /\ ~SupEnded(k)
                 THEN [sup[k] EXCEPT !.pc = "failed", !.err = "Aborted"] ELSE sup[k]]

\* handle_user_line writes msg and a new prompt, and run reads on
RunWrites(msg) ==
    /\ cli' = [cli EXCEPT !.pc = "select", !.buf = <<>>, !.msg = "",
                          !.out = @ \o <<msg, "> ">>]

\* run, before its loop: print_prompt
RunPrintPrompt ==
    /\ sess[ClientSession].pc = "idle"
    /\ cli.pc = "none"
    /\ \/ /\ cli' = [cli EXCEPT !.pc = "select", !.out = Append(@, "> ")]
          /\ UNCHANGED <<sess, sup>>
       \/ RunFails
    /\ UNCHANGED <<dispVars, harnessVars, mgr, obj, ret, inst, wire, dm,
                   cancel, vsockl, realms, disks, child, spawned, streams>>

\* the pieces in the socket up to the first line feed, or all of them
FirstLine(input) ==
    LET nls == {i \in 1..Len(input) : input[i].nl}
    IN IF nls = {} THEN Len(input)
       ELSE CHOOSE i \in nls : \A j \in nls : i <= j

\* run's select, arm read_line: the future takes what the socket holds; with
\* no line feed in it, it stays pending with the pieces in its own buffer.
\* With one, handle_user_line gets the line: a blank line ends the loop, a
\* line that is no command is answered with the error's text, and a command
\* goes to its handler. The read may fail.
RunReadLine ==
    /\ cli.pc = "select"
    /\ cli.input # <<>>
    /\ LET n == FirstLine(cli.input)
           got == cli.buf \o SubSeq(cli.input, 1, n)
           rest == SubSeq(cli.input, n + 1, Len(cli.input))
       IN \/ /\ ~cli.input[n].nl
             /\ cli' = [cli EXCEPT !.buf = got, !.input = rest]
             /\ UNCHANGED <<sess, sup>>
          \/ /\ cli.input[n].nl
             /\ LineOf(got) = "blank"
             /\ RunBreaks("empty", rest)
             /\ UNCHANGED sup
          \/ /\ cli.input[n].nl
             /\ LineOf(got) \in {"badsplit", "badargs"}
             /\ \/ /\ cli' = [cli EXCEPT !.pc = "select", !.buf = <<>>, !.input = rest,
                                         !.out = @ \o <<LineOf(got), "> ">>]
                   /\ UNCHANGED <<sess, sup>>
                \/ RunFails
          \/ /\ cli.input[n].nl
             /\ LineOf(got) = "cmd"
             /\ cli' = [cli EXCEPT !.pc = "command", !.buf = <<>>, !.input = rest]
             /\ sess' = [sess EXCEPT ![ClientSession].cmd = "", ![ClientSession].result = ""]
             /\ UNCHANGED sup
          \/ RunFails
    /\ UNCHANGED <<dispVars, harnessVars, mgr, obj, ret, inst, wire, dm,
                   cancel, vsockl, realms, disks, child, spawned, streams>>

\* handle_user_line once handle_cli has returned: the result or the error is
\* written, then a new prompt; either write may fail
RunWriteResult ==
    /\ cli.pc = "command"
    /\ sess[ClientSession].pc = "idle"
    /\ sess[ClientSession].result # ""
    /\ \/ /\ RunWrites(sess[ClientSession].result)
          /\ UNCHANGED <<sess, sup>>
       \/ RunFails
    /\ UNCHANGED <<dispVars, harnessVars, mgr, obj, ret, inst, wire, dm,
                   cancel, vsockl, realms, disks, child, spawned, streams>>

\* run's select, arm handler_threads.join_next(): supervisor task k has ended
\* and is taken out of the JoinSet. The read_line future of this turn of the
\* loop is dropped, and with it the pieces it had taken from the socket.
RunJoinNext(k) ==
    /\ cli.pc = "select"
    /\ k[1] = ClientSession
    /\ SupEnded(k)
    /\ k \notin cli.joined
    /\ cli' = [cli EXCEPT !.joined = @ \cup {k}, !.buf = <<>>]
    /\ UNCHANGED <<dispVars, harnessVars, hostVars, mgr, obj, ret, inst, wire, dm>>

\* run's select, arm cancel.cancelled()
RunCancelled ==
    /\ cli.pc = "select"
    /\ cancel
    /\ RunBreaks("cancel", cli.input)
    /\ UNCHANGED <<dispVars, harnessVars, mgr, obj, ret, inst, wire, dm,
                   cancel, vsockl, realms, disks, sup, child, spawned, streams>>

\* handle_command runs the command of the line that was read
RunCommand ==
    LET s == ClientSession
    IN /\ cli.pc = "command"
       /\ sess[s].result = ""
       /\ \/ \E id \in RealmIds, c \in CIDs : CreateRealm(s, id, c)
          \/ \E id \in RealmIds : LaunchRealm(s, id)
          \/ \E id \in RealmIds, req \in Requests : SendRequest(s, id, req)

NextSession ==
    \/ ClientAccept(ClientSession)
    \/ \E l \in TypedLines : ClientTypes(l)
    \/ \E c \in {Chunk("blank", TRUE), Chunk("rest", TRUE)} : ClientTypesRest(c)
    \/ RunPrintPrompt
    \/ RunReadLine
    \/ RunCommand
    \/ RecvResponse(ClientSession)
    \/ RunWriteResult
    \/ \E k \in DOMAIN sup : RunJoinNext(k)
    \/ RunCancelled
    \/ SessionJoined(ClientSession)
    \/ \E k \in DOMAIN sup : SupRequestStream(k)
    \/ \E k \in DOMAIN sup : SupTimeout(k)
    \/ \E k \in DOMAIN sup : SupChildExited(k)
    \/ \E k \in DOMAIN sup : SupRecvRequest(k)
    \/ \E k \in DOMAIN sup : SupReap(k)
    \/ \E k \in DOMAIN child : ChildExit(k)
    \/ MainShutdown

\* one client on the control socket, typing lines of every kind in pieces,
\* and the realms it launches
InitSession == DispInit /\ HarnessInit /\ HostInit /\ GuestIdle

SpecSession == InitSession /\ [][NextSession]_vars

\* ------------------------------------------------ cancellation
\* listen_unixsocket, arm "cancel.cancelled()": the loop is left
UnixCancelled ==
    /\ cancel
    /\ cli.unixl = "listening"
    /\ cli' = [cli EXCEPT !.unixl = "joining"]
    /\ UNCHANGED <<dispVars, harnessVars, hostVars, mgr, obj, ret, inst, wire, dm>>

\* listen_unixsocket after its loop: every ClientHandler::run task has been
\* joined, and the listener returns
UnixJoined ==
    /\ cli.unixl = "joining"
    /\ \A s \in Sessions : sess[s].pc \in {"none", "done"}
    /\ cli' = [cli EXCEPT !.unixl = "returned"]
    /\ UNCHANGED <<dispVars, harnessVars, hostVars, mgr, obj, ret, inst, wire, dm>>

\* main after Daemon::shutdown: both listener tasks are awaited, and main
\* returns
MainJoined ==
    /\ cancel
    /\ cli.main = "select"
    /\ vsockl = "stopped"
    /\ cli.unixl = "returned"
    /\ cli' = [cli EXCEPT !.main = "returned"]
    /\ UNCHANGED <<dispVars, harnessVars, hostVars, mgr, obj, ret, inst, wire, dm>>

\* the steps of the supervisor tasks
SupervisorStep ==
    \/ \E k \in DOMAIN sup : SupRequestStream(k)
    \/ \E k \in DOMAIN sup : SupTimeout(k)
    \/ \E k \in DOMAIN sup : SupChildExited(k)
    \/ \E k \in DOMAIN sup : SupRecvRequest(k)
    \/ \E k \in DOMAIN sup : SupReap(k)

\* ClientHandler::run's select, arm "cancel.cancelled()"
SessionCancelled == \E s \in Sessions : cancel /\ SessionLeave(s)

\* handle_realm's select, the arms that leave the loop
SupLeavesLoop ==
    \/ \E k \in DOMAIN sup : SupTimeout(k)
    \/ \E k \in DOMAIN sup : SupChildExited(k)

\* the steps a session takes without its client
SessionStep ==
    \/ \E s \in Sessions : RecvResponse(s)
    \/ SessionCancelled
    \/ \E s \in Sessions : SessionJoined(s)

\* the steps of the listener tasks and of main after the signal
ListenerStep ==
    \/ VsockCancelled
    \/ UnixCancelled
    \/ UnixJoined
    \/ MainJoined

NextCancel ==
    \/ \E s \in Sessions : cli.unixl = "listening" /\ ClientAccept(s)
    \/ \E s \in Sessions, id \in RealmIds, c \in CIDs : CreateRealm(s, id, c)
    \/ \E s \in Sessions, id \in RealmIds : LaunchRealm(s, id)
    \/ \E s \in Sessions, id \in RealmIds, req \in Requests : SendRequest(s, id, req)
    \/ \E s \in Sessions : SessionLeave(s)
    \/ \E k \in DOMAIN child : ChildExit(k)
    \/ MainShutdown
    \/ SupervisorStep
    \/ SessionStep
    \/ ListenerStep

\* the daemon, one client and its realm up to the end of main, with the
\* scheduling the runtime guarantees to the daemon's tasks: a task that can
\* take a step takes one, and select!, which picks at random among the arms
\* that are ready, does not pass over an arm for ever. Nothing obliges the
\* client to type, the signal to come or the hypervisor to exit.
InitCancel == DispInit /\ HarnessInit /\ HostInit /\ GuestIdle

SpecCancel ==
    /\ InitCancel /\ [][NextCancel]_vars
    /\ WF_vars(SupervisorStep) /\ WF_vars(SessionStep) /\ WF_vars(ListenerStep)
    /\ SF_vars(SessionCancelled) /\ SF_vars(SupLeavesLoop)

\* =================================================================== claims
\* ---- ConnectionDispatcher (checked under SpecDisp)

\* the channels request_stream created for CID c
ChannelsOf(c) == {k \in DOMAIN oneshot : oneshot[k].cid = c}

\* C1: rendezvous. When exactly one request_stream(c) and exactly one
\* add_stream(c, s) have been issued, in whichever order the mutex admitted them,
\* neither map holds c any more, and the waiter's channel was sent to exactly once
\* and holds exactly s. The only waiter whose future holds nothing is one that had
\* already dropped its Receiver when the stream arrived (no future is left to
\* resolve; add_stream reported SendError).
C1_Rendezvous ==
    \A c \in CIDs :
        (nReq[c] = 1 /\ Len(added[c]) = 1) =>
            /\ available[c] = NoStream
            /\ requests[c] = None
            /\ Cardinality(ChannelsOf(c)) = 1
            /\ \A k \in ChannelsOf(c) :
                  \/ oneshot[k].sent = <<added[c][1]>>
                  \/ oneshot[k].sent = <<>> /\ ~oneshot[k].rx

\* C1 witness: one request and one add for a CID, and the live waiter holds the stream
C1_Witness ==
    \E c \in CIDs :
        /\ nReq[c] = 1
        /\ Len(added[c]) = 1
        /\ \E k \in ChannelsOf(c) : oneshot[k].rx /\ oneshot[k].sent = <<added[c][1]>>

\* C2: after every completed add_stream or request_stream call, whatever it
\* returned, no CID is present in both the available map and the requests map.
C2_AtMostOneMap ==
    \A c \in CIDs : ~(available[c] # NoStream /\ requests[c] # None)

\* C2 witness: a call has just failed with SendError on a CID that had a stream
\* and a (dead) waiter, and another CID has a stream parked
C2_Witness ==
    /\ dres = "SendError"
    /\ \E c \in CIDs : available[c] # NoStream
    /\ \E c \in CIDs : available[c] = NoStream /\ requests[c] = None /\ nReq[c] > 0

\* C3: add_stream(c, s) issued while a stream for c is parked fails with
\* ConnectionPresent and changes neither map (nor any channel); the parked
\* stream is the one a later request_stream(c) delivers.
C3_AddStreamWhileParked ==
    [][\A c \in CIDs :
          /\ (Len(added'[c]) = Len(added[c]) + 1 /\ available[c] # NoStream) =>
                /\ dres' = "ConnectionPresent"
                /\ available' = available
                /\ requests' = requests
                /\ oneshot' = oneshot
          /\ (nReq'[c] = nReq[c] + 1 /\ available[c] # NoStream /\ requests[c] = None) =>
                /\ dres' = "Ok"
                /\ Len(oneshot') = Len(oneshot) + 1
                /\ oneshot'[Len(oneshot')].sent = <<available[c]>>
                /\ available'[c] = NoStream
      ]_vars

\* C3 witness: a second add_stream for a CID was rejected and the first stream
\* is still the parked one
C3_Witness ==
    /\ dres = "ConnectionPresent"
    /\ \E c \in CIDs : Len(added[c]) >= 2 /\ available[c] = added[c][1]

\* C4: request_stream(c) issued while a waiter for c is parked fails with
\* RequestPresent and changes neither map (no channel is created); the parked
\* waiter is the one that receives the stream a later add_stream(c, s) brings.
C4_RequestWhileParked ==
    [][\A c \in CIDs :
          /\ (nReq'[c] = nReq[c] + 1 /\ requests[c] # None) =>
                /\ dres' = "RequestPresent"
                /\ available' = available
                /\ requests' = requests
                /\ oneshot' = oneshot
          /\ (Len(added'[c]) = Len(added[c]) + 1 /\ requests[c] # None
                 /\ oneshot[requests[c]].rx) =>
                /\ dres' = "Ok"
                /\ oneshot'[requests[c]].sent = <<added'[c][Len(added'[c])]>>
                /\ requests'[c] = None
      ]_vars

\* C4 witness: a second request_stream for a CID was rejected and the first
\* waiter is still parked
C4_Witness ==
    /\ dres = "RequestPresent"
    /\ \E c \in CIDs : nReq[c] >= 2 /\ requests[c] = 1 /\ oneshot[1].cid = c

\* ---- two realms and the dispatcher (checked under SpecTwo)

\* supervisor j has not called request_stream yet, or it has left its loop (on
\* the stream's end of life, the timeout or the hypervisor's exit), reaped the
\* hypervisor and returned Ok
NoWaiter(j) == sup[j].pc \in {"request_stream", "done"}

\* C5: re-request after a finished supervisor. A supervisor's request_stream(c),
\* made when every supervisor that called request_stream(c) before it has
\* finished (stream delivered and guest exited, or timeout with no stream),
\* succeeds: the supervisor goes on to its select loop instead of failing on
\* RequestPresent.
C5_ReRequestAfterFinished ==
    [][\A k \in DOMAIN sup :
          (/\ sup[k].pc = "request_stream"
           /\ sup'[k].pc # "request_stream"
           /\ \A j \in DOMAIN sup \ {k} : sup[j].cid = sup[k].cid => NoWaiter(j))
          => sup'[k].pc = "select"
      ]_vars

\* a live realm: launched, and its supervisor has not finished
LiveRealm(k) == realms[k].txrx /\ ~SupEnded(k)

\* C7: vsock_cid uniqueness. No two live realms have the same vsock_cid.
C7_UniqueCid ==
    \A k1 \in DOMAIN realms, k2 \in DOMAIN realms :
        (k1 # k2 /\ LiveRealm(k1) /\ LiveRealm(k2)) =>
            realms[k1].config.vsock_cid # realms[k2].config.vsock_cid

\* ---- one realm, its supervisor and its guest (checked under Spec)

\* C6: at most one supervisor per realm. A launched realm has had exactly one
\* hypervisor and one supervisor spawned and never gets another: it stays
\* launched, an exited hypervisor stays exited, a finished supervisor stays
\* finished, and launch-realm on it replies RealmAlreadyRunning and changes
\* nothing in the daemon.
C6_OneSupervisor ==
    [][\A k \in DOMAIN realms :
          realms[k].txrx =>
             /\ spawned[k] = 1
             /\ spawned'[k] = 1
             /\ realms'[k].txrx
             /\ (child[k] = "exited" => child'[k] = "exited")
             /\ (SupEnded(k) => sup'[k].pc = sup[k].pc)
             /\ \A s \in Sessions :
                   (/\ sess'[s] # sess[s]
                    /\ sess'[s].pc = "idle"
                    /\ sess'[s].cmd = "launch-realm"
                    /\ sess'[s].on = k)
                   => /\ sess'[s].result = "RealmAlreadyRunning"
                      /\ UNCHANGED <<dispVars, realms, disks, sup, child, spawned, streams>>
      ]_vars

\* C6 witness: launch-realm on a launched realm was answered RealmAlreadyRunning
C6_Witness ==
    \E s \in Sessions :
        /\ sess[s].cmd = "launch-realm"
        /\ sess[s].result = "RealmAlreadyRunning"
        /\ realms[sess[s].on].txrx
        /\ spawned[sess[s].on] = 1

\* C8: RealmInfo is the first frame. On every stream, the first frame the host
\* has written is RealmInfo; a supervisor that retains a stream has written it
\* (the write is part of the step that takes the stream); the guest consumed its
\* first frame as RealmInfo, and a frame it consumed as a Command was not its
\* first.
C8_RealmInfoFirst ==
    /\ \A i \in DOMAIN streams :
          /\ HostWrote(i) # <<>> => HostWrote(i)[1].t = "RealmInfo"
          /\ \A j \in 1..Len(streams[i].gread) :
                IF j = 1
                THEN /\ streams[i].gread[j].as = "RealmInfo"
                     /\ streams[i].gread[j].frame.t = "RealmInfo"
                ELSE streams[i].gread[j].as = "Command"
    /\ \A k \in DOMAIN sup :
          sup[k].stream # NoStream =>
             /\ HostWrote(sup[k].stream) # <<>>
             /\ HostWrote(sup[k].stream)[1] = RealmInfoFrame(sup[k].info)

\* C8 witness: a guest has read RealmInfo and then a Command
C8_Witness ==
    \E i \in DOMAIN streams :
        /\ Len(streams[i].gread) >= 2
        /\ streams[i].gread[1].frame.t = "RealmInfo"
        /\ streams[i].gread[2].frame.t = "Command"

\* C9: RealmInfo content. The RealmInfo a supervisor pushes has one entry for
\* every application created in its realm so far, with the partition GUIDs of
\* the application's main.raw and secure.raw, and no other entry.
C9_RealmInfoContent ==
    [][\A k \in DOMAIN sup :
          (sup[k].stream = NoStream /\ sup'[k].stream # NoStream) =>
             LET h2g == streams'[sup'[k].stream].h2g
                 info == h2g[Len(h2g)].body
             IN /\ DOMAIN info = DOMAIN realms[k].apps
                /\ \A id \in DOMAIN info :
                      /\ info[id].main_partition_uuid =
                            disks[DiskPath(k[2], id, "main.raw")].part_guid
                      /\ info[id].secure_partition_uuid =
                            disks[DiskPath(k[2], id, "secure.raw")].part_guid
      ]_vars

\* C10: Shutdown handling. Taking a Shutdown request with a stream, the
\* supervisor writes one Command::Shutdown frame and replies nothing yet; it
\* writes nothing more until it has read one Response frame, and replies Ok in
\* the step that reads it. Taking it without a stream, it writes nothing and
\* replies RealmNotConnected. The client is told RealmExited for Ok and the
\* error RealmIsNotRunning for RealmNotConnected.
C10_ShutdownHandling ==
    [][\A k \in DOMAIN sup :
          /\ (sup[k].req = "Shutdown" /\ sup'[k].req = "") =>
                IF sup[k].stream # NoStream
                THEN LET i == sup[k].stream
                     IN /\ Written(streams'[i]) =
                              Append(Written(streams[i]), CommandFrame(Command_Shutdown))
                        /\ streams'[i].g2h = streams[i].g2h
                        /\ \A j \in DOMAIN streams \ {i} : streams'[j] = streams[j]
                        /\ sup'[k].pc = "read_response"
                        /\ sup'[k].resp = ""
                ELSE /\ streams' = streams
                     /\ sup'[k].pc = "select"
                     /\ sup'[k].resp = "RealmNotConnected"
          /\ sup[k].pc = "read_response" =>
                LET i == sup[k].stream
                IN /\ sup[k].resp = ""
                   /\ Written(streams'[i]) = Written(streams[i])
                   /\ sup'[k].resp # "" =>
                         /\ streams[i].g2h # <<>>
                         /\ streams[i].g2h[1].t = "Response"
                         /\ streams'[i].g2h = Tail(streams[i].g2h)
                         /\ sup'[k].resp = "Ok"
          /\ \A s \in Sessions :
                (/\ sess[s].pc = "wait"
                 /\ sess[s].on = k
                 /\ sess[s].cmd = "Shutdown"
                 /\ sess'[s].pc = "idle"
                 /\ sup[k].resp # "")
                => sess'[s].result = IF sup[k].resp = "Ok" THEN "RealmExited"
                                     ELSE "RealmIsNotRunning"
      ]_vars

\* C10 witness: a client was told RealmExited for a shutdown whose
\* Command::Shutdown the guest has read and answered
C10_Witness ==
    \E s \in Sessions :
        /\ sess[s].pc = "idle"
        /\ sess[s].cmd = "Shutdown"
        /\ sess[s].result = "RealmExited"
        /\ \E j \in 1..Len(streams[sess[s].on].gread) :
              streams[sess[s].on].gread[j].frame = CommandFrame(Command_Shutdown)

\* the guest of stream i has read Command::Shutdown (and so has answered it)
GuestReadShutdown(i) ==
    \E j \in 1..Len(streams[i].gread) : streams[i].gread[j].frame = CommandFrame(Command_Shutdown)

\* the number of Response frames the guest has written on stream i: one for
\* every Command it has read
GuestAnswers(i) ==
    Cardinality({j \in 1..Len(streams[i].gread) : streams[i].gread[j].frame.t = "Command"})

\* the number of Response frames the host has read from stream i
HostReads(i) == GuestAnswers(i) - Len(streams[i].g2h)

\* C11: shutdown round trip. The guest reads Shutdown only after the host wrote
\* it; once the guest has answered Shutdown and left its command loop (its
\* process has ended), the host has read the answer; and once the supervisor of
\* such a realm has returned, the host has read the answer and the hypervisor
\* has exited.
C11_ShutdownRoundTrip ==
    \A i \in DOMAIN streams :
        GuestReadShutdown(i) =>
            /\ streams[i].gpc = "exited" => HostReads(i) >= 1
            /\ SupEnded(i) => HostReads(i) >= 1 /\ child[i] = "exited"

\* ---- one realm, with fair scheduling of the daemon's tasks (SpecLive)

\* the 90 s have elapsed with no stream delivered: the supervisor has left its
\* loop while the hypervisor runs (on the hypervisor's exit it leaves the loop
\* too, but then the hypervisor has exited)
TimedOut(k) == k \in DOMAIN sup /\ sup[k].pc = "reap" /\ child[k] = "running"

\* C12: vsock connect timeout. Once the 90 s have elapsed without a stream, the
\* supervisor is out of its loop for good and answers no Request any more, and
\* its task terminates.
C12_TimeoutTerminates ==
    /\ [][\A k \in DOMAIN sup :
             sup[k].pc = "reap" =>
                /\ sup'[k].pc \in {"reap", "done"}
                /\ sup'[k].resp \in {sup[k].resp, ""}
         ]_vars
    /\ \A k \in Sessions \X RealmIds : TimedOut(k) ~> SupEnded(k)

\* ---- late connections (Spec)

\* the listener task passes the accepted stream of k's guest to add_stream
AddsStreamOf(k) ==
    /\ k \in DOMAIN streams
    /\ streams[k].pending
    /\ ~streams'[k].pending

\* C13: a timeout is terminal for the affected supervisor only. When the guest
\* of a realm whose supervisor has timed out connects late, the vsock listener
\* keeps listening.
C13_TimeoutIsolated ==
    [][\A k \in DOMAIN sup :
          sup[k].timedout /\ AddsStreamOf(k) => vsockl' = "listening"]_vars

\* ---- supervisor errors (SpecTwo)

\* handle_realm of k returns an error in this step
SupFails(k) == sup[k].pc # "failed" /\ sup'[k].pc = "failed"

\* C14: supervisor error isolation. The step in which one supervisor ends with
\* an error leaves every other supervisor and every session as they are, and
\* the daemon keeps serving afterwards: the connection of the failed
\* supervisor's guest does not end the vsock listener, whose end shuts the
\* daemon and its sessions down.
C14_ErrorIsolation ==
    [][\A k \in DOMAIN sup :
          /\ SupFails(k) =>
                /\ \A j \in DOMAIN sup \ {k} : sup'[j] = sup[j]
                /\ sess' = sess
                /\ vsockl' = vsockl
          /\ sup[k].pc = "failed" /\ AddsStreamOf(k) => vsockl' = "listening"
      ]_vars

\* ---- application commands on the host (Spec)

\* the supervisor of k replies to the Request it holds
SupReplies(k) == sup[k].req # "" /\ sup'[k].req = "" /\ sup'[k].resp # ""

\* C16: host forwarding of application commands. When the supervisor replies
\* to a StartApp, TerminateApp or KillApp request while it holds the guest
\* stream, the last frame it wrote to the guest is that Command.
C16_ForwardsAppCommands ==
    [][\A k \in DOMAIN sup :
          (/\ SupReplies(k)
           /\ sup[k].req \in AppRequests
           /\ sup[k].stream # NoStream)
          => LET w == HostWrote(sup[k].stream)
             IN w # <<>> /\ \E id \in AppIds : w[Len(w)] = AppCommandFrame(sup[k].req, id)
      ]_vars

\* the guest of stream i starts an application only on a StartApp command
GuestAppStarted(i) ==
    \E j \in 1..Len(streams[i].gread), id \in AppIds :
        streams[i].gread[j].frame = AppCommandFrame("StartApp", id)

\* the session s gets the result of its command cmd on a connected realm
Answered(s, cmd) ==
    /\ sess[s].pc = "wait"
    /\ sess[s].cmd = cmd
    /\ sess'[s].pc = "idle"
    /\ sup[sess[s].on].stream # NoStream

\* C15: kill before launch. kill-app for an application of a launched and
\* connected realm that was not started is reported to the client as
\* AppNotRunning, never as ApplicationExited.
C15_KillBeforeLaunch ==
    [][\A s \in Sessions :
          (/\ Answered(s, "KillApp")
           /\ DOMAIN realms[sess[s].on].apps # {}
           /\ ~GuestAppStarted(sup[sess[s].on].stream))
          => sess'[s].result = "AppNotRunning"
      ]_vars

\* ---- the guest manager (SpecGuest)

\* the Commands the manager has read
CommandsRead == {j \in 1..Len(mgr.read) : mgr.read[j].t = "Command"}

\* C17: request/response pairing of the guest's command loop. Every Command
\* read has got its Response, also when it names an unknown application or the
\* operation fails, and if main has returned after reading a Command, the last
\* Command read is Shutdown.
C17_OneResponsePerCommand ==
    /\ Len(mgr.out) = Cardinality(CommandsRead)
    /\ mgr.pc = "exited" /\ CommandsRead # {}
          => mgr.read[Len(mgr.read)] = CommandFrame(Command_Shutdown)

\* everything main does for an application before the loop has succeeded
SetUp(app) ==
    /\ app.main_storage
    /\ app.secure_storage
    /\ app.launcher.some
    /\ app.mounted = Mounts

\* AppManager::launch_applications has launched the application
Launched(app) == app.launcher.txrx

\* main enters event_loop in this step
EntersLoop == mgr.pc # "event_loop" /\ mgr'.pc = "event_loop"

\* C18: guest boot ordering. The command loop is entered only when every
\* application of RealmInfo is decrypted, provisioned and mounted and has been
\* launched by launch_applications; after a failed step it is never entered.
C18_BootOrdering ==
    [][/\ EntersLoop => \A id \in DOMAIN mgr.apps :
                            SetUp(mgr'.apps[id]) /\ Launched(mgr'.apps[id])
       /\ mgr.pc = "exited" => mgr'.pc = "exited"
      ]_vars

\* ------------------------------------------------ two clients, one workdir
\* two control-socket clients, each with its ClientHandler and its realm map
TwoSessions == {1, 2}

NextShare ==
    \/ \E s \in TwoSessions : ClientAccept(s)
    \/ \E s \in TwoSessions, id \in RealmIds, c \in CIDs : CreateRealm(s, id, c)
    \/ \E s \in TwoSessions, id \in AppIds, rid \in RealmIds, cfg \in Configs :
          CreateApplication(s, id, rid, cfg)
    \/ \E s \in TwoSessions, id \in RealmIds : LaunchRealm(s, id)
    \/ \E k \in DOMAIN sup : SupRequestStream(k)
    \/ \E k \in DOMAIN sup : SupTimeout(k)
    \/ \E k \in DOMAIN sup : SupChildExited(k)
    \/ \E k \in DOMAIN sup : SupReap(k)
    \/ \E k \in DOMAIN child : ChildExit(k)

\* the daemon with no client yet, no realm and an empty workdir
InitShare ==
    /\ DispInit /\ HarnessInit /\ GuestIdle
    /\ cancel = FALSE
    /\ vsockl = "listening"
    /\ sess = [s \in TwoSessions |-> [pc |-> "none", on |-> <<>>, cmd |-> "", result |-> ""]]
    /\ realms = <<>>
    /\ disks = <<>>
    /\ sup = <<>>
    /\ child = <<>>
    /\ spawned = <<>>
    /\ streams = <<>>

SpecShare == InitShare /\ [][NextShare]_vars

\* ------------------------------------------------ dm-crypt tables
\* decrypt_partition calls load on a device it has created
CryptLoad ==
    /\ dm.pc = "created"
    /\ dm' = [dm EXCEPT !.pc = "loaded",
                        !.res = CryptDevice_load(dm.entry, dm.devpath, dm.key)]
    /\ UNCHANGED <<dispVars, harnessVars, hostVars, mgr, obj, ret, inst, wire, cli>>

\* the device is resumed with the table loaded
CryptResume ==
    /\ dm.pc = "loaded"
    /\ dm.res.ok
    /\ dm' = [dm EXCEPT !.pc = "active"]
    /\ UNCHANGED <<dispVars, harnessVars, hostVars, mgr, obj, ret, inst, wire, cli>>

NextCrypt == CryptLoad \/ CryptResume

\* a device for every table, device path and key of the model
InitCrypt ==
    /\ DispInit /\ HarnessInit /\ HostInit
    /\ mgr = ManagerIdle /\ obj = GuestApplication_new([provision_info |-> None])
    /\ ret = NoCall /\ inst = InstallerIdle /\ wire = WireIdle /\ cli = CliIdle
    /\ dm \in {[pc |-> "created", entry |-> e, devpath |-> p, key |-> k,
                res |-> [ok |-> FALSE, err |-> "", params |-> <<>>]] :
                  e \in DmCryptTables, p \in DevPaths, k \in Keys}

SpecCrypt == InitCrypt /\ [][NextCrypt]_vars

\* ---- one guest Application under arbitrary calls (SpecApp)

\* C19: step ordering of the guest Application. Whatever the sequence of
\* calls: the main storage is mounted only when decrypt_main_storage has
\* succeeded, and provision_app_image before that fails with
\* MainStorageNotDecrypted and changes nothing; likewise the secure storage
\* with decrypt_secure_storage and SecureStorageNotDecrypted; a Launcher is
\* stored by provision_app_image only, a process exists only with a Launcher,
\* and launch, terminate and kill without one fail with
\* ApplicationNotInstalled and change nothing.
C19_StepOrdering ==
    [][/\ "main" \in obj'.mounted => obj'.main_storage
       /\ "secure" \in obj'.mounted => obj'.secure_storage
       /\ obj'.launcher.proc # "none" => obj'.launcher.some
       /\ CallProvisionAppImage /\ ~obj.main_storage
             => ret'.res = "MainStorageNotDecrypted" /\ obj' = obj
       /\ CallProvisionSecureMemory /\ ~obj.secure_storage
             => ret'.res = "SecureStorageNotDecrypted" /\ obj' = obj
       /\ ~obj.launcher.some /\ obj'.launcher.some => CallProvisionAppImage
       /\ (CallLaunch \/ CallTerminate \/ CallKill) /\ ~obj.launcher.some
             => ret'.res = "ApplicationNotInstalled" /\ obj' = obj
      ]_vars

\* provision_app_image was refused on an undecrypted Application
C19_Witness ==
    /\ ret.op = "provision_app_image"
    /\ ret.res = "MainStorageNotDecrypted"
    /\ obj.mounted = {}

\* C20: on a Launcher on which launch has never succeeded, stop, kill and wait
\* fail with AppNotRunning, send no signal and leave the Launcher as it is.
C20_NotRunning ==
    [][(LauncherStop \/ LauncherKill \/ LauncherWait) /\ obj.launcher.n = 0
          => /\ ret'.res = "AppNotRunning"
             /\ obj'.launcher = obj.launcher
             /\ obj'.launcher.signals = <<>>
      ]_vars

\* kill was refused on a Launcher never launched
C20_Witness ==
    /\ ret.op = "Launcher::kill"
    /\ ret.res = "AppNotRunning"
    /\ obj.launcher.some
    /\ obj.launcher.n = 0

\* ---- Launcher and empty argv (checked under SpecApp)

\* the Application's Launcher exists and its argv is empty
EmptyArgv == obj.launcher.some /\ Launcher_argv(obj.launcher) = <<>>

\* a call of one of ops returns in this step
Returns(ops) == ret' # ret /\ ret'.op \in ops

\* C30: empty argv. With an argv (the entrypoint followed by cmd when an
\* entrypoint is set, else cmd) that is empty, launch fails with EmptyArgv and
\* changes nothing: no process is spawned and no supervisor started; the
\* Launcher is never running, and stop, kill and wait on it, directly or through
\* the Application, fail with AppNotRunning.
C30_EmptyArgv ==
    [][EmptyArgv =>
        /\ ~obj.launcher.txrx /\ obj.launcher.proc = "none" /\ obj.launcher.hpc = "none"
        /\ obj.launcher.n = 0
        /\ Returns({"launch"}) => ret'.res = "EmptyArgv" /\ obj' = obj
        /\ Returns({"terminate", "kill", "Launcher::stop", "Launcher::kill",
                    "Launcher::wait"}) => ret'.res = "AppNotRunning" /\ obj' = obj]_vars

\* launch has failed with EmptyArgv on an image whose entrypoint is set and
\* empty, as is its cmd
C30_Witness ==
    /\ ret = [op |-> "launch", res |-> "EmptyArgv"]
    /\ obj.launcher.config.config = [entrypoint |-> Entrypoint(<<>>), cmd |-> <<>>]

\* ---- image installer (checked under SpecInstall)

\* Installer::install has returned a Launcher
Accepted == inst.install.done /\ inst.install.err.kind = ""

\* Installer::install has returned this kind of error
Rejected(kind) == inst.install.done /\ inst.install.err.kind = kind

\* the image in img/, the manifest-list entry install selected, and the
\* content of that entry's config file
Unpacked == inst.work.files
SelectedEntry == Unpacked.manifest.entries[inst.install.sel]
SelectedConfig == Unpacked.files[SelectedEntry.config]

\* C21: acceptance implies integrity. When install has returned a Launcher, the
\* sha256 of manifest.json is the root of trust, the sha256 of the selected
\* config file is what the part of its name before the '.' decodes to, there
\* are as many layers as diff_ids, and the digest of every layer file, whole,
\* under the algorithm of its diff_id, is that diff_id.
C21_AcceptedImageIsIntact ==
    Accepted =>
        /\ Hash("sha256", <<Unpacked.manifest>>) = inst.rot.val
        /\ SelectedEntry.config.ext /\ SelectedEntry.config.hex
        /\ Hash("sha256", <<SelectedConfig>>) = SelectedEntry.config.val
        /\ Len(SelectedEntry.layers) = Len(SelectedConfig.diff_ids)
        /\ \A i \in 1..Len(SelectedEntry.layers) :
              Hash(SelectedConfig.diff_ids[i].ty,
                   Bytes(Unpacked.layers[SelectedEntry.layers[i]]))
                  = SelectedConfig.diff_ids[i].val

\* an image of two entries is accepted for its second entry, with two layers,
\* one of them measured under sha512 and followed by bytes after its archive
C21_Witness ==
    /\ Accepted
    /\ inst.install.sel = 2
    /\ SelectedEntry.layers = <<"A", "B">>
    /\ SelectedConfig.diff_ids[2].ty = "sha512"

\* provision_app_image has returned in this boot from an install that ended
\* with a hash mismatch
MismatchReturned ==
    inst.pc = "returned" /\ inst.mode = "install" /\ inst.err.kind = "HashMismatch"

C23_VerifyBeforeConsume ==
    inst.mode = "install" =>
        \A i \in 1..Len(inst.log) :
            inst.log[i].ev \in {"parsed", "unpacked"} =>
                \E j \in 1..(i - 1) : inst.log[j] = Event("verified", inst.log[i].path)

\* install has read a manifest.json whose sha256 is not the root of trust
ManifestViolated ==
    inst.install.done /\ inst.work.img
    /\ Hash("sha256", <<Unpacked.manifest>>) # inst.rot.val

\* C24: manifest integrity. When the sha256 of img/manifest.json differs from
\* the root of trust, install fails with HashMismatch naming manifest.json, the
\* root of trust as the expected digest and the computed digest, and rootfs/
\* has not been created.
C24_ManifestIntegrity ==
    ManifestViolated =>
        /\ inst.install.err
              = HashMismatch(ManifestPath, inst.rot.val, Hash("sha256", <<Unpacked.manifest>>))
        /\ ~inst.work.rootfs
        /\ inst.work.unpacked = <<>>

\* the manifest of a two-entry image did not match the root of trust
C24_Witness ==
    /\ ManifestViolated
    /\ Rejected("HashMismatch")
    /\ Parses(Unpacked.manifest)
    /\ Len(Unpacked.manifest.entries) = 2

\* read_manifest has returned in this boot, and what it read of manifest.json
\* passed its own checks
ManifestRead ==
    /\ inst.pc \in {"rootfs", "layers", "returned"} /\ inst.mode # "" /\ inst.work.img
    /\ Parses(Unpacked.manifest)
    /\ inst.mode = "install" => Hash("sha256", <<Unpacked.manifest>>) = inst.rot.val

\* the entries of manifest.json
Entries == Unpacked.manifest.entries

\* the config file of entry i passes read_container_config
Verifies(i) ==
    LET n == Entries[i].config
    IN /\ n.ext /\ n.hex
       /\ Hash("sha256", <<Unpacked.files[n]>>) = n.val
       /\ Parses(Unpacked.files[n])

\* the entries whose verified config is for arm64, and those whose config is
\* not verified
Arm64Entries == {i \in 1..Len(Entries) : Verifies(i) /\ Unpacked.files[Entries[i].config].arch = "arm64"}
FailingEntries == {i \in 1..Len(Entries) : ~Verifies(i)}

\* the least member of a non-empty set of numbers
Min(S) == CHOOSE i \in S : \A j \in S : i <= j

\* C25 as stated: architecture selection. read_manifest returns the first
\* entry of the manifest list whose verified config is for arm64, and fails with
\* NoImageForArch when the list has no such entry.
C25_FirstArm64 ==
    ManifestRead =>
        IF Arm64Entries # {}
        THEN inst.m.err.kind = "" /\ inst.m.sel = Min(Arm64Entries)
        ELSE inst.m.err.kind = "NoImageForArch"

\* C25, amended: read_manifest reads the configs of the manifest list in order;
\* when an entry's config fails to verify or to parse before an entry for arm64
\* is found, it fails with that entry's error; else it returns the first entry
\* whose verified config is for arm64, and fails with NoImageForArch when the list
\* has none. On failure no Launcher is returned.
C25_FirstArm64Amended ==
    ManifestRead =>
        /\ IF FailingEntries # {}
              /\ (Arm64Entries = {} \/ Min(FailingEntries) < Min(Arm64Entries))
           THEN /\ inst.m.err.kind \in {"InvalidPath", "InvalidHex", "HashMismatch", "SerdeError"}
                /\ inst.m.err.kind \in {"InvalidPath", "HashMismatch"}
                      => inst.m.err.path = ConfigPath(Entries[Min(FailingEntries)].config)
           ELSE IF Arm64Entries # {}
           THEN /\ inst.m.err.kind = "" /\ inst.m.sel = Min(Arm64Entries)
                /\ inst.m.config = Unpacked.files[Entries[inst.m.sel].config]
           ELSE inst.m.err.kind = "NoImageForArch"
        /\ inst.m.err.kind # "" /\ inst.pc = "returned"
              => inst[inst.mode].launcher = NoLauncher /\ obj.launcher = NoLauncher

\* the second entry is the first for arm64, after a verified one for amd64
C25_Witness ==
    /\ ManifestRead
    /\ Len(Entries) = 2
    /\ Verifies(1)
    /\ inst.m.sel = 2

\* C26: install/validate equivalence. After install has returned a Launcher, a
\* validate over the same workdir, which nothing has changed since, succeeds
\* and returns a Launcher with the same rootfs path and the same config.
C26_ValidateEquivalence ==
    Accepted /\ inst.validate.done =>
        /\ inst.validate.err.kind = ""
        /\ inst.validate.launcher.rootfs = inst.install.launcher.rootfs
        /\ inst.validate.launcher.config = inst.install.launcher.config
        /\ Launcher_argv(inst.validate.launcher) = Launcher_argv(inst.install.launcher)

\* validate has returned after an install that selected the second of two
\* entries and unpacked two layers
C26_Witness ==
    /\ Accepted /\ inst.validate.done
    /\ inst.install.sel = 2
    /\ Len(inst.work.unpacked) = 2

\* ---- QEMUDisk (checked under SpecDisk)

\* the disk files of the application id of realm k
MainDisk(k, id) == DiskPath(k[2], id, "main.raw")
SecureDisk(k, id) == DiskPath(k[2], id, "secure.raw")

\* C27: reopen idempotence. QEMUDisk::new on a path where an earlier call with the
\* same size succeeded neither recreates nor rewrites the file, and returns the
\* partition GUID the file has had since its creation: no step changes an
\* existing disk file, and every Application holds the GUIDs of its files,
\* however often it is created again and across restarts of the daemon.
C27_ReopenIdempotent ==
    [][/\ \A p \in DOMAIN disks : p \in DOMAIN disks' /\ disks'[p] = disks[p]
       /\ \A k \in DOMAIN realms' : \A id \in DOMAIN realms'[k].apps :
             /\ realms'[k].apps[id].main_storage = disks'[MainDisk(k, id)].part_guid
             /\ realms'[k].apps[id].secure_storage = disks'[SecureDisk(k, id)].part_guid
       /\ \A p \in DOMAIN disks : \A sz \in DiskSizesMB :
             disks[p].size = SizeBytes(sz) =>
                 /\ QEMUDisk_new(disks, p, sz).ok
                 /\ QEMUDisk_new(disks, p, sz).fs = disks
                 /\ QEMUDisk_new(disks, p, sz).part_uuid = disks[p].part_guid]_vars

\* after a restart of the daemon the application a1 exists again over the disk
\* files of its first creation, which were written once
C27_Witness ==
    /\ <<1, "r1">> \in DOMAIN realms
    /\ "a1" \in DOMAIN realms[<<1, "r1">>].apps
    /\ realms[<<1, "r1">>].apps["a1"].main_storage = 1
    /\ Cardinality(DOMAIN disks) = 4
    /\ disks[MainDisk(<<1, "r1">>, "a1")] = [size |-> SizeBytes(2), part_guid |-> 1, writes |-> 1]

\* C28: size mismatch. QEMUDisk::new on an existing file whose length is not
\* size_mb * 1024 * 1024 fails with ExistingDiskSizeMismatch and leaves the file
\* as it is; a create-application that meets such a file fails with that error
\* and adds no application to the realm.
C28_SizeMismatch ==
    [][/\ \A p \in DOMAIN disks : \A sz \in DiskSizesMB :
             disks[p].size # SizeBytes(sz) =>
                 /\ ~QEMUDisk_new(disks, p, sz).ok
                 /\ QEMUDisk_new(disks, p, sz).err = "ExistingDiskSizeMismatch"
                 /\ QEMUDisk_new(disks, p, sz).fs = disks
       /\ \A s \in Sessions, id \in DiskAppIds, rid \in RealmIds, cfg \in DiskConfigs :
             (/\ CreateApplication(s, id, rid, cfg)
              /\ <<s, rid>> \in DOMAIN realms
              /\ id \notin DOMAIN realms[<<s, rid>>].apps
              /\ \/ /\ MainDisk(<<s, rid>>, id) \in DOMAIN disks
                    /\ disks[MainDisk(<<s, rid>>, id)].size
                          # SizeBytes(cfg.main_storage_size_mb)
                 \/ /\ SecureDisk(<<s, rid>>, id) \in DOMAIN disks
                    /\ disks[SecureDisk(<<s, rid>>, id)].size
                          # SizeBytes(cfg.secure_storage_size_mb))
             => /\ sess'[s].result = "ExistingDiskSizeMismatch"
                /\ realms' = realms
                /\ \A p \in DOMAIN disks : disks'[p] = disks[p]]_vars

\* create-application has failed with ExistingDiskSizeMismatch in a realm
\* without applications, over files of an earlier daemon
C28_Witness ==
    /\ sess[1].cmd = "create-application"
    /\ sess[1].result = "ExistingDiskSizeMismatch"
    /\ <<1, "r1">> \in DOMAIN realms
    /\ realms[<<1, "r1">>].apps = <<>>
    /\ Cardinality(DOMAIN disks) = 2

\* ---- frames (checked under SpecFrame)

\* the last call wrote v
Wrote(v) == wire.last = "write" /\ wire.wval = v
\* the last call read, as a value of its own type, the frame written from v
ReadBack(v) == wire.last = "read" /\ wire.orig = v /\ wire.rty = v.ty
\* the bytes of the frame serde_write makes of v
FrameLen(v) == json_len(to_json(v))

\* C29 as stated: every Command and every Response is written as one frame,
\* and the frame, read back as a value of its type, gives a value equal to it.
C29_FrameRoundTrip ==
    \A v \in Values :
        /\ Wrote(v) => wire.wres = "Ok"
        /\ ReadBack(v) => wire.got = ReadOk(v)

\* C29, amended: a Command or Response whose JSON text has at most
\* MaxFrameLength bytes is written as one frame, and the frame, read back as a
\* value of its type, gives a value equal to it; a longer one is refused by
\* serde_write with SerdeWriteError and puts no frame on the stream.
C29_FrameRoundTripAmended ==
    \A v \in Values :
        /\ Wrote(v) => /\ wire.wres = (IF FrameLen(v) <= MaxFrameLength
                                      THEN "Ok" ELSE "SerdeWriteError")
                       /\ wire.wres = "Ok" =>
                             /\ wire.vals # <<>>
                             /\ wire.vals[Len(wire.vals)] = v
        /\ ReadBack(v) => wire.got = ReadOk(v)
        /\ Len(wire.stream) = Len(wire.vals)
        /\ \A i \in 1..Len(wire.stream) :
              /\ FrameLen(wire.vals[i]) <= MaxFrameLength
              /\ wire.stream[i] = Frame(Header(FrameLen(wire.vals[i])), to_json(wire.vals[i]))

\* a frame of exactly MaxFrameLength bytes has been read back as the Command
\* it was written from
C29_Witness ==
    /\ wire.last = "read"
    /\ wire.rty = "Command"
    /\ wire.got = ReadOk(wire.orig)
    /\ FrameLen(wire.orig) = MaxFrameLength

\* ---- the control-socket session, line by line (checked under SpecSession)

\* the lines the client has typed to their end
TypedWhole == {i \in 1..Len(cli.typed) : cli.typed[i][Len(cli.typed[i])].nl}
\* the client has typed a line that is empty once trimmed
TypedBlank == \E i \in 1..Len(cli.typed) : cli.typed[i][1].text = "blank"
\* run is in its select with nothing left to read of what the client typed
ReadAll ==
    /\ cli.pc = "select"
    /\ cli.input = <<>>
    /\ Len(cli.typed) = Cardinality(TypedWhole)

\* C31: the session writes, for every line that is not empty, one message and
\* then a prompt, and reads on; it leaves its loop for an empty line only when
\* the client typed one, and otherwise only for an I/O error or cancellation.
C31_SessionSurvives ==
    /\ cli.end = "empty" => TypedBlank
    /\ ReadAll => /\ Len(cli.out) = 1 + 2 * Len(cli.typed)
                  /\ \A i \in 1..Len(cli.out) : (cli.out[i] = "> ") <=> (i % 2 = 1)

\* ---- cancellation (checked under SpecCancel)

\* main has returned
Terminated == cli.main = "returned"

\* C32: once cancel is raised the listeners and the sessions leave their
\* loops; the control-socket listener returns only when every session has
\* ended, a session that leaves its loop returns only when every supervisor
\* task it spawned has ended, and the daemon terminates.
C32_Cancellation ==
    /\ [](cli.unixl = "returned" => \A s \in Sessions : sess[s].pc \in {"none", "done"})
    /\ [](\A s \in Sessions : sess[s].pc = "done" =>
             \A k \in DOMAIN sup : k[1] = s => SupEnded(k))
    /\ (cancel ~> (vsockl = "stopped" /\ cli.unixl # "listening"
                   /\ \A s \in Sessions : sess[s].pc \in {"none", "joining", "done"}))
    /\ (cancel ~> Terminated)

\* ---- Launcher: one request per supervisor ----

\* the Request a call of the Launcher sends
RequestOf(op) ==
    IF op = "Launcher::stop" THEN "Stop" ELSE IF op = "Launcher::kill" THEN "Kill" ELSE "Wait"

\* stop, kill or wait is called on a Launcher whose process runs and whose
\* supervisor is in its loop
RunningCall ==
    /\ LauncherStop \/ LauncherKill \/ LauncherWait
    /\ obj.launcher.txrx
    /\ obj.launcher.hpc = "select"
    /\ obj.launcher.proc = "running"

\* the supervisor served the call: it sent the signal of the request and no
\* other, awaited the exit, sent one Status and left its loop, and the call
\* returned that status
Served ==
    /\ ret'.res = "ExitStatus"
    /\ obj'.launcher.signals = obj.launcher.signals \o SignalOf(RequestOf(ret'.op))
    /\ obj'.launcher.proc = "exited"
    /\ obj'.launcher.got = obj'.launcher.status
    /\ obj'.launcher.sent = 1
    /\ obj'.launcher.hpc = "done"

\* the supervisor left its loop without a response and without a signal sent
Unserved ==
    /\ ret'.res = "ChannelClosed"
    /\ obj'.launcher.signals = obj.launcher.signals
    /\ obj'.launcher.sent = 0
    /\ obj'.launcher.hpc = "done"

\* C33 as stated: on a running Launcher, Stop makes the supervisor send
\* SIGTERM, Kill SIGKILL and Wait no signal; the supervisor then awaits the
\* exit of the child, sends exactly one Status response with that exit status
\* and ends its loop, and the call receives the response to its own request.
C33_RequestHandling ==
    [][RunningCall => Served]_vars

\* what the code does instead: on a running Launcher the supervisor either
\* serves the call, or, when the signal cannot be sent or the child's own exit
\* is seen before the request, leaves its loop with no signal and no response,
\* and the call fails with ChannelClosed; a supervisor never sends a second
\* Status, and once it has left its loop every call fails with
\* RequestChannelError and sends no signal.
ServedOrClosed ==
    [][/\ RunningCall => Served \/ Unserved
       /\ obj'.launcher.sent <= 1
       /\ ((LauncherStop \/ LauncherKill \/ LauncherWait)
             /\ obj.launcher.txrx /\ obj.launcher.hpc = "done")
          => /\ ret'.res = "RequestChannelError"
             /\ obj'.launcher = obj.launcher
      ]_vars

\* stop on a running Launcher returned the status of a child that died of
\* SIGTERM, the only signal sent
StopServed ==
    /\ ret.op = "Launcher::stop"
    /\ ret.res = "ExitStatus"
    /\ obj.launcher.signals = <<"SIGTERM">>
    /\ obj.launcher.got = "SIGTERM"
    /\ obj.launcher.sent = 1
    /\ obj.launcher.hpc = "done"

\* ---- application ids of a realm ----

\* C34: create_application with an id of the realm fails with AppExists,
\* creates no disk and leaves the application map as it is; a creation that
\* succeeds adds the one entry of its id and replaces none, and one that fails
\* on a disk adds none.
C34_AppIdUnique ==
    [][\A s \in Sessions, id \in DiskAppIds, rid \in RealmIds, cfg \in DiskConfigs :
          (CreateApplication(s, id, rid, cfg) /\ <<s, rid>> \in DOMAIN realms)
          => LET k == <<s, rid>>
                 m == QEMUDisk_new(disks, DiskPath(rid, id, "main.raw"),
                                   cfg.main_storage_size_mb)
                 e == QEMUDisk_new(m.fs, DiskPath(rid, id, "secure.raw"),
                                   cfg.secure_storage_size_mb)
             IN /\ id \in DOMAIN realms[k].apps
                   => /\ sess'[s].result = "AppExists"
                      /\ disks' = disks
                      /\ realms' = realms
                /\ \A a \in DOMAIN realms[k].apps : /\ a \in DOMAIN realms'[k].apps
                                                    /\ realms'[k].apps[a] = realms[k].apps[a]
                /\ DOMAIN realms'[k].apps \subseteq DOMAIN realms[k].apps \cup {id}
                /\ (id \notin DOMAIN realms[k].apps /\ (~m.ok \/ ~e.ok))
                   => /\ realms' = realms
                      /\ sess'[s].result \notin {"ApplicationCreated", "AppExists"}
                /\ (id \notin DOMAIN realms[k].apps /\ m.ok /\ e.ok)
                   => /\ sess'[s].result = "ApplicationCreated"
                      /\ id \in DOMAIN realms'[k].apps
      ]_vars

\* a realm holds two applications, and the creation of one of them again was
\* refused with AppExists
C34_Witness ==
    \E k \in DOMAIN realms :
        /\ Cardinality(DOMAIN realms[k].apps) = 2
        /\ sess[k[1]].cmd = "create-application"
        /\ sess[k[1]].on = k
        /\ sess[k[1]].result = "AppExists"

\* ---- dm-crypt target line (checked under SpecCrypt)

\* the value of a lowercase hex digit, 16 for any other character
HexValue(ch) ==
    IF \E i \in 1..16 : HexDigits[i] = ch
    THEN (CHOOSE i \in 1..16 : HexDigits[i] = ch) - 1
    ELSE 16

\* text is the lowercase hex of the bytes v
IsLowerHexOf(text, v) ==
    /\ Len(text) = 2 * Len(v)
    /\ \A i \in 1..Len(v) : /\ HexValue(text[2 * i - 1]) < 16
                            /\ HexValue(text[2 * i]) < 16
                            /\ 16 * HexValue(text[2 * i - 1]) + HexValue(text[2 * i]) = v[i]

\* the fields of text between single spaces
RECURSIVE Fields(_)
Fields(text) ==
    IF \A i \in 1..Len(text) : text[i] # " " THEN <<text>>
    ELSE LET i == CHOOSE j \in 1..Len(text) :
                     text[j] = " " /\ \A h \in 1..(j - 1) : text[h] # " "
         IN <<SubSeq(text, 1, i - 1)>> \o Fields(SubSeq(text, i + 1, Len(text)))

\* the key field of the line load has built
KeyField == Fields(dm.res.params)[2]

\* load has built the line of a table
Loaded == dm.pc \in {"loaded", "active"} /\ dm.res.ok

\* the fields the target line is to have
LineFields ==
    LET p == dm.entry.params
        o == p.additional_options
    IN <<Cipher_fmt(p.cipher) \o <<"-">> \o BlockMode_fmt(p.block_mode) \o <<"-">>
             \o IvMode_fmt(p.iv_mode),
         KeyField, ToDec(p.iv_offset), dm.devpath.text, ToDec(dm.entry.offset)>>
       \o (IF o.some THEN <<ToDec(Len(o.opts))>> \o (IF o.opts = <<>> THEN <<<<>>>> ELSE o.opts)
           ELSE <<>>)

\* C35: the line load builds is `<cipher>-<block_mode>-<iv_mode> <key>
\* <iv_offset> <devpath> <offset>` with single spaces between the fields,
\* followed, when additional options are present, by a space, the number of
\* options, a space and the options joined by spaces; a raw key is written as
\* lowercase hex, a hex key as it is, a keyring key as
\* `:<key_size>:<key_type>:<key_desc>`.
C35_TargetLine ==
    Loaded =>
        /\ dm.res.params = join(LineFields, Space)
        /\ dm.key.kind = "Raw" => IsLowerHexOf(KeyField, dm.key.v)
        /\ dm.key.kind = "Hex" => KeyField = dm.key.h
        /\ dm.key.kind = "Keyring" =>
              KeyField = <<":">> \o ToDec(dm.key.key_size) \o <<":">>
                             \o KeyType_fmt(dm.key.key_type) \o <<":">> \o dm.key.key_desc

\* the line without additional options is as C35 says, and so is its key
TargetLineWithoutOptions ==
    (Loaded /\ ~dm.entry.params.additional_options.some) => C35_TargetLine

\* with additional options the number of options follows the digits of the
\* offset at once
OptionsJoinOffset ==
    (Loaded /\ dm.entry.params.additional_options.some)
    => LET o == dm.entry.params.additional_options.opts
       IN Fields(dm.res.params)[5] = ToDec(dm.entry.offset) \o ToDec(Len(o))

\* ---- the hypervisor of an ended supervisor (checked under Spec)

\* the supervisor of realm k returns in this step
SupEnds(k) == k \in DOMAIN sup /\ ~SupEnded(k) /\ SupEnded(k)'

\* C36: by whatever path a realm's supervisor task ends (timeout, exit of the
\* child seen in the loop, or an error raised inside the loop), its last step
\* is the completion of the one wait on the hypervisor that follows the loop:
\* the child has exited and has been waited on when the task returns.
C36_ReapedOnEveryPath ==
    [][\A k \in DOMAIN sup :
          SupEnds(k) => /\ sup[k].pc = "reap"
                        /\ child[k] = "exited"
                        /\ sup'[k].pc = "done"]_vars

\* the paths that leave the loop by break do end with the wait: a supervisor
\* that returns Ok has waited on an exited hypervisor
ReapedAfterBreak ==
    [][\A k \in DOMAIN sup :
          (SupEnds(k) /\ sup'[k].pc = "done") => sup[k].pc = "reap" /\ child[k] = "exited"]_vars

\* a supervisor has returned an error while its hypervisor runs, waited on by
\* nobody
FailedUnreaped ==
    \E k \in DOMAIN sup : sup[k].pc = "failed" /\ child[k] = "running"

\* ---- one running instance per guest application (checked under SpecGuest)

\* C37: after any sequence of boot-time launches and of StartApp, TerminateApp
\* and KillApp commands, no guest application has a child process that was
\* left running when a later one was launched, and the child of the Launcher,
\* while it runs, has its supervisor task in the loop at the other end of the
\* Launcher's request channel.
C37_SingleInstance ==
    \A id \in DOMAIN mgr.apps :
        LET l == mgr.apps[id].launcher
        IN /\ l.orphans = 0
           /\ l.proc = "running" => l.txrx /\ l.hpc = "select"

\* an application launched once has one child, with its supervisor in the
\* loop while it runs and no request has been sent
LaunchedOnceSupervised ==
    \A id \in DOMAIN mgr.apps :
        LET l == mgr.apps[id].launcher
        IN (l.n = 1 /\ l.proc = "running" /\ l.signals = <<>>) =>
              l.orphans = 0 /\ l.txrx /\ (l.hpc = "select" \/ mgr.pc = "exited")

\* StartApp has launched an application that was running
StartedTwice ==
    \E id \in DOMAIN mgr.apps :
        mgr.apps[id].launcher.n = 2 /\ mgr.apps[id].launcher.orphans = 1

\* ---- disk files of the realms of all sessions (checked under SpecShare)

\* the disk files of the applications of realm k
RealmDisks(k) ==
    UNION {{MainDisk(k, id), SecureDisk(k, id)} : id \in DOMAIN realms[k].apps}

\* the disk files Realm::configure has attached to the hypervisor of realm k:
\* those of the applications of the RealmInfo taken at the launch
AttachedDisks(k) ==
    UNION {{MainDisk(k, id), SecureDisk(k, id)} : id \in DOMAIN sup[k].info}

\* C38: over all realms of all control-socket sessions, no disk file belongs
\* to two realms, and none is attached to two hypervisors that run at the same
\* time.
C38_ExclusiveDisks ==
    /\ \A k1 \in DOMAIN realms, k2 \in DOMAIN realms :
          k1 # k2 => RealmDisks(k1) \cap RealmDisks(k2) = {}
    /\ \A k1 \in DOMAIN child, k2 \in DOMAIN child :
          (k1 # k2 /\ child[k1] = "running" /\ child[k2] = "running")
          => AttachedDisks(k1) \cap AttachedDisks(k2) = {}

\* two hypervisors run with the same main.raw attached
SharedDiskRunning ==
    \E k1 \in DOMAIN child, k2 \in DOMAIN child :
        /\ k1 # k2
        /\ child[k1] = "running" /\ child[k2] = "running"
        /\ AttachedDisks(k1) \cap AttachedDisks(k2) # {}

\* ---- the vsock listener and rejected connections (checked under Spec)

\* listen_vsock is in its loop
VsockLoop == {"listening", "add_stream"}

\* C39: the vsock listener survives rejected connections. Whatever add_stream
\* returns for an accepted connection, the listener is back at accept
\* afterwards; it leaves its loop only on cancellation.
C39_ListenerSurvives ==
    [][/\ \A k \in DOMAIN streams : VsockAddStream(k) => vsockl' = "listening"
       /\ (vsockl \in VsockLoop /\ vsockl' \notin VsockLoop)
              => cancel /\ vsockl' = "stopped"
      ]_vars

\* a connection that add_stream takes leaves the listener in its loop
ListenerSurvivesAccepted ==
    [][\A k \in DOMAIN streams :
          (VsockAddStream(k) /\ add_stream(Disp, streams[k].cid, k).res = "Ok")
          => vsockl' = "listening"]_vars

\* the listener task has returned the error of add_stream, with no
\* cancellation
ListenerEndedByReject ==
    /\ vsockl \in {"ConnectionPresent", "SendError"}
    /\ ~cancel

\* ---- secure storage of a guest Application (checked under SpecApp)

\* provision_secure_memory is called with the secure storage decrypted
ProvisionsSecure == CallProvisionSecureMemory /\ obj.secure_storage

====
